---- MODULE Spec2Model ----
(***************************************************************************)
(* neo-meting: the retry combinator (src/src/lib.rs), the bounded remote   *)
(* executor, the record normalizer and the operations url, pic, lrc, song, *)
(* playlist and search of the Netease provider (src/src/netease.rs).       *)
(*                                                                         *)
(* The specifications of the module:                                       *)
(*   Spec       provider calls sharing one permit pool (exec, playlist)    *)
(*   SpecLive   Spec under the fairness of the scheduler and the semaphore *)
(*   SpecList   one playlist call under every upstream behaviour           *)
(*   SpecOps    one call of any operation, every id and upstream answer    *)
(*   SpecRetry  one run of retry(limit, input, task, on_error)             *)
(*   SpecBatch  the partition of a trackIds array into request buckets     *)
(*   SpecNorm   get_id_name_artist applied to one upstream record          *)
(*   SpecSearchReq  SearchReq::new applied to one MetingSearchOptions       *)
(*   SpecFront  one request to the front-end's routes (src/src/main.rs)    *)
(*   SpecKey    the symmetric key of WeapiEncoder::try_from_str            *)
(*   SpecIp     IpStr::from applied to one u32                             *)
(***************************************************************************)
EXTENDS Integers, Sequences, FiniteSets, TLC

VARIABLES
    \* --- Spec: Netease sharing one Arc<Semaphore> ---
    permits,      \* available permits of Netease.counter
    pc,           \* per call: "idle" | "exec" | "next" | "await" | "done"
    op,           \* per call: the MetingApi operation being run
    idArg,        \* per call: the `id: &str` argument of the operation
    execs,        \* per call: executions the operation itself has started
    body,         \* per call: the decoded response the operation bound
                  \*           (`data`, `hash_map`, `json`), once it has one
    ex,           \* per call: state of the exec the call awaits directly
    retryArg,     \* per call: the `retry: u8` argument of playlist
    bucket_set,   \* per call: the buckets built by playlist
    idx,          \* per call: how many items the lazy `tasks` iterator yielded
    task,         \* per call: one record per bucket, the spawned retry task
    outputs,      \* per call: the `outputs` vector of playlist
    result,       \* per call: the value the operation returned
    \* --- SpecRetry ---
    r_limit,      \* `limit: u8`
    r_counter,    \* `counter`
    r_pc,         \* "task" (awaiting task(input.clone())) | "done"
    r_attempts,   \* outcomes of the task runs so far, in order
    r_onerr,      \* arguments on_error was called with, in order
    r_result,     \* value retry returned
    \* --- SpecBatch ---
    b_pc,         \* "input" | "done"
    b_trackIds,   \* the upstream trackIds array
    b_buckets,    \* bucket_set after line 595
    \* --- SpecNorm ---
    n_pc,         \* "input" | "done"
    n_in,         \* the upstream record get_id_name_artist is applied to
    n_out,        \* what it returned
    \* --- the front-end process (main.rs) ---
    RETRY,        \* the process-wide retry budget, static RETRY
    \* --- SpecSearchReq ---
    sr_pc,        \* "input" | "done"
    sr_options,   \* the MetingSearchOptions given to SearchReq::new
    sr_req,       \* what SearchReq::new returned
    \* --- SpecKey ---
    k_pc,         \* "input" | "done"
    k_rng,        \* what OsRng.try_fill_bytes answered
    k_skey,       \* the key after the mapping of lines 57-60
    k_block,      \* the block `y` given to rsa.public_encrypt
    k_out,        \* what try_from_str returned
    \* --- SpecIp ---
    ip_pc,        \* "input" | "done"
    ip_in,        \* the u32 given to IpStr::from
    ip_out        \* the text of the IpStr it returned

callVars  == <<permits, pc, op, idArg, execs, body, ex, retryArg, bucket_set, idx,
               task, outputs, result>>
retryVars == <<r_limit, r_counter, r_pc, r_attempts, r_onerr, r_result>>
batchVars == <<b_pc, b_trackIds, b_buckets>>
normVars  == <<n_pc, n_in, n_out>>
mainVars  == <<RETRY>>
reqVars   == <<sr_pc, sr_options, sr_req>>
keyVars   == <<k_pc, k_rng, k_skey, k_block, k_out>>
ipVars    == <<ip_pc, ip_in, ip_out>>
pureVars  == <<reqVars, keyVars, ipVars>>
vars      == <<callVars, retryVars, batchVars, normVars, pureVars, mainVars>>

----------------------------------------------------------------------------
(* Bounds of the model *)

\* concurrent calls of the provider
NumCalls == 2
\* permits the semaphore is created with
Capacity == 1
\* longest `ar` array of a record in SpecNorm
MaxArtists == 3
\* largest `retry` argument given to playlist in SpecList
MaxRetry == 1
\* longest trackIds array in SpecBatch
MaxIds == 1026
\* most buckets a playlist of SpecList is split into
MaxBuckets == 3
\* most records in one song-detail response
MaxSongs == 2

(* Program constants *)

\* netease.rs:383
ITEM_PRE_REQUEST == 512
\* the largest value of `limit: u8` and `counter`, lib.rs:42
U8Max == 255

Calls == 1..NumCalls

----------------------------------------------------------------------------
(* Option<T> and serde_json::Value *)

None    == [some |-> FALSE]
Some(x) == [some |-> TRUE, v |-> x]

JNull     == [t |-> "null"]
JU64(n)   == [t |-> "u64", v |-> n]
JStr(s)   == [t |-> "str", v |-> s]
JArr(a)   == [t |-> "arr", v |-> a]
JObj(f)   == [t |-> "obj", v |-> f]
EmptyObj  == JObj(<<>>)

\* Value::get(key): Some only on an object that has the key
Get(j, k) ==
    IF j.t = "obj" /\ k \in DOMAIN j.v THEN Some(j.v[k]) ELSE None

As_u64(j)   == IF j.t = "u64" THEN Some(j.v) ELSE None
As_str(j)   == IF j.t = "str" THEN Some(j.v) ELSE None
As_array(j) == IF j.t = "arr" THEN Some(j.v) ELSE None

\* input.get(k)?.as_u64(), .as_str(), .as_array(): Option::and_then
GetU64(j, k) ==
    LET o == Get(j, k) IN IF o.some THEN As_u64(o.v) ELSE None
GetStr(j, k) ==
    LET o == Get(j, k) IN IF o.some THEN As_str(o.v) ELSE None
GetArray(j, k) ==
    LET o == Get(j, k) IN IF o.some THEN As_array(o.v) ELSE None
\* json.get(k1).and_then(|x| x.get(k2))
GetIn(j, k1, k2) ==
    LET o == Get(j, k1) IN IF o.some THEN Get(o.v, k2) ELSE None

IsSome(o) == o.some

\* what Iterator::filter_map keeps of the options its closure returned
Somes(os) ==
    LET kept == SelectSeq(os, IsSome)
    IN  [i \in 1..Len(kept) |-> kept[i].v]

----------------------------------------------------------------------------
(* get_id_name_artist, src/src/netease.rs:357-374 *)

ArtistName(x) == GetStr(x, "name")

\* the closure of the fold at lines 366-372
ArtistStep(acc, index, now) ==
    IF index # 0 THEN acc \o "/" \o now ELSE now

RECURSIVE ArtistFold(_, _, _)
ArtistFold(names, index, acc) ==
    IF index >= Len(names) THEN acc
    ELSE ArtistFold(names, index + 1, ArtistStep(acc, index, names[index + 1]))

\* mutant: a record without an `ar` array is given no artists
get_id_name_artist_LenientAr(input) ==
    LET id   == GetU64(input, "id")
        name == GetStr(input, "name")
        ar   == GetArray(input, "ar")
    IN  IF ~id.some THEN None
        ELSE IF ~name.some THEN None
        ELSE IF ~ar.some THEN Some(<<ToString(id.v), name.v, "">>)
        ELSE Some(<<ToString(id.v), name.v,
                    ArtistFold(Somes([i \in 1..Len(ar.v) |-> ArtistName(ar.v[i])]), 0, "")>>)

get_id_name_artist(input) ==
    LET id   == GetU64(input, "id")
        name == GetStr(input, "name")
        ar   == GetArray(input, "ar")
    IN  IF ~id.some THEN None
        ELSE IF ~name.some THEN None
        ELSE IF ~ar.some THEN None
        ELSE Some(<<ToString(id.v), name.v,
                    ArtistFold(Somes([i \in 1..Len(ar.v) |-> ArtistName(ar.v[i])]), 0, "")>>)

\* the link closures the front-end passes in, src/src/main.rs:249-251
PicLink(id) == "http://host/netease/pic/" \o id
LrcLink(id) == "http://host/netease/lrc/" \o id
UrlLink(id) == "http://host/netease/url/" \o id

\* lines 628-634
MetingSong(t) ==
    [name |-> t[2], artist |-> t[3],
     url |-> UrlLink(t[1]), pic |-> PicLink(t[1]), lrc |-> LrcLink(t[1])]

\* mutant: the records after the first one that does not normalise are lost
SongsOf_UntilFirstBad(arr) ==
    IF \E i \in 1..Len(arr) : ~get_id_name_artist(arr[i]).some
    THEN LET bad == CHOOSE i \in 1..Len(arr) :
                        /\ ~get_id_name_artist(arr[i]).some
                        /\ \A j \in 1..(i - 1) : get_id_name_artist(arr[j]).some
         IN  [i \in 1..(bad - 1) |-> MetingSong(get_id_name_artist(arr[i]).v)]
    ELSE [i \in 1..Len(arr) |-> MetingSong(get_id_name_artist(arr[i]).v)]

\* playlist lines 626-635 and search lines 669-678: the records of an
\* upstream songs array that normalise, as MetingSong
SongsOf(arr) ==
    LET kept == Somes([i \in 1..Len(arr) |-> get_id_name_artist(arr[i])])
    IN  [i \in 1..Len(kept) |-> MetingSong(kept[i])]

\* An id argument is the sequence of its characters.
Digits == {"0", "1", "2", "3", "4", "5", "6", "7", "8", "9"}

DigitVal(ch) ==
    CASE ch = "0" -> 0 [] ch = "1" -> 1 [] ch = "2" -> 2 [] ch = "3" -> 3
      [] ch = "4" -> 4 [] ch = "5" -> 5 [] ch = "6" -> 6 [] ch = "7" -> 7
      [] ch = "8" -> 8 [] ch = "9" -> 9

RECURSIVE DecimalVal(_)
DecimalVal(ds) ==
    IF ds = <<>> THEN 0
    ELSE 10 * DecimalVal(SubSeq(ds, 1, Len(ds) - 1)) + DigitVal(ds[Len(ds)])

\* id.parse::<u64>() at netease.rs:441 and 513: decimal digits after an
\* optional "+" (ids of the model stay far below 2^64)
ParseU64(id) ==
    LET ds == IF id # <<>> /\ id[1] = "+" THEN Tail(id) ELSE id
    IN  IF ds # <<>> /\ \A i \in 1..Len(ds) : ds[i] \in Digits
        THEN Some(DecimalVal(ds)) ELSE None

----------------------------------------------------------------------------
(* usize, lib.rs:69-71: 64-bit unsigned integers, written as their bytes   *)
(* from the least significant one, so that (page - 1) * limit is computed  *)
(* at the width the program computes it                                    *)

\* bytes of a usize on the 64-bit targets the server is built for
UsizeBytes == 8

\* the k low bytes of the natural number n
RECURSIVE LimbsOf(_, _)
LimbsOf(n, k) ==
    IF k = 0 THEN <<>> ELSE <<n % 256>> \o LimbsOf(n \div 256, k - 1)

\* the usize of value n, for n below 2^31
Usize(n) == LimbsOf(n, UsizeBytes)
\* the usize 2^e
Pow2(e) == [i \in 1..UsizeBytes |-> IF i = (e \div 8) + 1 THEN 2 ^ (e % 8) ELSE 0]
\* usize::MAX
UsizeMax == [i \in 1..UsizeBytes |-> 255]

IsZero(a) == \A i \in DOMAIN a : a[i] = 0

\* a - 1 modulo 2^64: the borrow runs through the low zero bytes
WDec(a) ==
    LET z == IF IsZero(a) THEN Len(a) + 1
             ELSE CHOOSE i \in DOMAIN a : a[i] # 0 /\ \A j \in 1..(i - 1) : a[j] = 0
    IN  [i \in DOMAIN a |-> IF i < z THEN 255 ELSE IF i = z THEN a[i] - 1 ELSE a[i]]

\* the sum of the byte products a[i] * b[j] of weight 256^(k-1), from i on
RECURSIVE ColSum(_, _, _, _)
ColSum(a, b, k, i) ==
    IF i > Len(a) THEN 0
    ELSE (IF (k + 1 - i) \in DOMAIN b THEN a[i] * b[k + 1 - i] ELSE 0)
         + ColSum(a, b, k, i + 1)

\* the bytes of a * b from weight 256^(k-1) on, given the carry into them
RECURSIVE MulDigits(_, _, _, _)
MulDigits(a, b, k, carry) ==
    IF k > Len(a) + Len(b) THEN <<>>
    ELSE LET t == ColSum(a, b, k, 1) + carry
         IN  <<t % 256>> \o MulDigits(a, b, k + 1, t \div 256)

\* the exact product of two usize values, 16 bytes
WideMul(a, b) == MulDigits(a, b, 1, 0)
\* what a usize keeps of it, and what it loses
Low(p)  == SubSeq(p, 1, UsizeBytes)
High(p) == SubSeq(p, UsizeBytes + 1, Len(p))
Overflows(p) == ~IsZero(High(p))

----------------------------------------------------------------------------
(* Result<O, E> *)

Ok(o)  == [ok |-> TRUE, v |-> o]
Err(e) == [ok |-> FALSE, e |-> e]

NoField(path)            == [kind |-> "NoField", path |-> path]
TypeMismatch(feild, tgt) == [kind |-> "TypeMismatch", feild |-> feild, target |-> tgt]
\* Error::Remote(format!("{e:?}")): the message shows the ReqError
Remote(e)                == [kind |-> "Remote", msg |-> e]
\* Error::Server(format!("{e:?}")), used by search only (netease.rs:660)
Server(e)                == [kind |-> "Server", msg |-> e]
\* Error::None
ErrorNone                == [kind |-> "None"]
\* Error::Unimplemented
Unimplemented            == [kind |-> "Unimplemented"]

----------------------------------------------------------------------------
(* retry, src/src/lib.rs:41-65 *)

\* mutant: `counter <= limit` in the guard of line 58
RetryMatch_OffByOne(res, counter, limit) ==
    IF res.ok THEN [brk |-> TRUE, ret |-> Some(res), counter |-> counter, on_error |-> None]
    ELSE IF counter <= limit
         THEN [brk |-> FALSE, ret |-> None,
               counter |-> (counter + 1) % (U8Max + 1), on_error |-> Some(res.e)]
         ELSE [brk |-> TRUE, ret |-> Some(res), counter |-> counter, on_error |-> None]

\* mutant: on_error is also called with the error that is returned
RetryMatch_ReportLast(res, counter, limit) ==
    IF res.ok THEN [brk |-> TRUE, ret |-> Some(res), counter |-> counter, on_error |-> None]
    ELSE IF counter < limit
         THEN [brk |-> FALSE, ret |-> None,
               counter |-> (counter + 1) % (U8Max + 1), on_error |-> Some(res.e)]
         ELSE [brk |-> TRUE, ret |-> Some(res), counter |-> counter, on_error |-> Some(res.e)]

\* mutant: an Ok is returned only once the budget is used up
RetryMatch_RunOn(res, counter, limit) ==
    IF res.ok /\ counter >= limit
    THEN [brk |-> TRUE, ret |-> Some(res), counter |-> counter, on_error |-> None]
    ELSE IF counter < limit
         THEN [brk |-> FALSE, ret |-> None,
               counter |-> (counter + 1) % (U8Max + 1), on_error |-> None]
         ELSE [brk |-> TRUE, ret |-> Some(res), counter |-> counter, on_error |-> None]

\* the match at lines 56-63: what one finished run of the task leads to.
\* brk: the loop breaks with `ret`; otherwise on_error is called with
\* `on_error` and the loop runs the task again with `counter`.
RetryMatch(res, counter, limit) ==
    IF res.ok THEN [brk |-> TRUE, ret |-> Some(res), counter |-> counter, on_error |-> None]
    ELSE IF counter < limit
         THEN [brk |-> FALSE, ret |-> None,
               counter |-> (counter + 1) % (U8Max + 1), on_error |-> Some(res.e)]
         ELSE [brk |-> TRUE, ret |-> Some(res), counter |-> counter, on_error |-> None]

\* a run of task(input.clone()) finishes with `res`
RetryTaskDone(res) ==
    /\ r_pc = "task"
    /\ LET m == RetryMatch(res, r_counter, r_limit)
       IN  /\ r_attempts' = Append(r_attempts, res)
           /\ r_counter' = m.counter
           /\ r_onerr' = IF m.on_error.some THEN Append(r_onerr, m.on_error.v) ELSE r_onerr
           /\ r_pc' = IF m.brk THEN "done" ELSE "task"
           /\ r_result' = IF m.brk THEN m.ret ELSE r_result
    /\ UNCHANGED r_limit

\* the n-th run of the task returns the value or the error numbered n
RetryTaskOk  == RetryTaskDone(Ok(Len(r_attempts) + 1))  /\ UNCHANGED <<callVars, batchVars, normVars, pureVars, mainVars>>
RetryTaskErr == RetryTaskDone(Err(Len(r_attempts) + 1)) /\ UNCHANGED <<callVars, batchVars, normVars, pureVars, mainVars>>

----------------------------------------------------------------------------
(* playlist: from the trackIds array to bucket_set, netease.rs:580-595 *)

SongItem(id) == [id |-> id, v |-> 0]

\* line 581
TrackIdOf(track_id) == GetU64(track_id, "id")

\* mutant: at a boundary the bucket is pushed without the item at hand
BucketStep_DropAtBoundary(acc, index, now) ==
    IF index % ITEM_PRE_REQUEST = 0 /\ index # 0
    THEN <<<<>>, Append(acc[2], acc[1])>>
    ELSE <<Append(acc[1], now), acc[2]>>

\* the closure of the fold, lines 586-593; acc = <<bucket, bucket_set>>
BucketStep(acc, index, now) ==
    LET bucket == Append(acc[1], now)
    IN  IF index % ITEM_PRE_REQUEST = 0 /\ index # 0
        THEN <<<<>>, Append(acc[2], bucket)>>
        ELSE <<bucket, acc[2]>>

\* Iterator::fold over items[lo..hi] in order, starting from acc.  The left
\* half is evaluated before the right half is entered (TLC passes arguments
\* unevaluated, which would nest one pending call per item).
RECURSIVE BucketFold(_, _, _, _)
BucketFold(items, lo, hi, acc) ==
    IF lo > hi THEN acc
    ELSE IF lo = hi THEN BucketStep(acc, lo - 1, items[lo])
    ELSE LET mid  == (lo + hi) \div 2
             left == BucketFold(items, lo, mid, acc)
         IN  IF Len(left) = 2 THEN BucketFold(items, mid + 1, hi, left) ELSE left

\* lines 580-595, including the final bucket_set.push(bucket)
Buckets(track_ids) ==
    LET ids   == Somes([i \in 1..Len(track_ids) |-> TrackIdOf(track_ids[i])])
        items == [i \in 1..Len(ids) |-> SongItem(ids[i])]
        acc   == BucketFold(items, 1, Len(items), <<<<>>, <<>>>>)
    IN  Append(acc[2], acc[1])

----------------------------------------------------------------------------
(* Upstream data *)

TrackEntry(k) == JObj([id |-> JU64(k)])

\* a trackIds array of n entries with ids 1..n; entry `bad`, if any, has no
\* unsigned-integer id
TrackIdsArray(n, bad) ==
    [k \in 1..n |-> IF k = bad THEN JObj([id |-> JStr("x")]) ELSE TrackEntry(k)]

BadAt(n) == {p \in {0, 1, 2, ITEM_PRE_REQUEST + 1} : p <= n}

\* one record of a song-detail response
SongJson(id) ==
    JObj([id |-> JU64(id), name |-> JStr("song" \o ToString(id)),
          ar |-> JArr(<<JObj([name |-> JStr("A")]), JObj([name |-> JStr("B")])>>)])

NamelessSongJson(id) == JObj([id |-> JU64(id)])

Reverse(s) == [i \in 1..Len(s) |-> s[Len(s) + 1 - i]]

\* the ids of the first MaxSongs items of a bucket
AskedIds(bucket) ==
    [i \in 1..(IF Len(bucket) < MaxSongs THEN Len(bucket) ELSE MaxSongs) |-> bucket[i].id]

SongsJson(ids) == [i \in 1..Len(ids) |-> SongJson(ids[i])]

\* the body upstream answers a song-detail request for `bucket` with
DetailResponse(shape, bucket) ==
    CASE shape = "inOrder"  -> JObj([songs |-> JArr(SongsJson(AskedIds(bucket)))])
      [] shape = "reversed" -> JObj([songs |-> JArr(Reverse(SongsJson(AskedIds(bucket))))])
      [] shape = "partial"  ->
            JObj([songs |-> JArr(
                [i \in 1..Len(AskedIds(bucket)) |->
                    IF i = 1 THEN NamelessSongJson(AskedIds(bucket)[i])
                    ELSE SongJson(AskedIds(bucket)[i])])])
      [] shape = "noArtists" ->
            JObj([songs |-> JArr(
                [i \in 1..Len(AskedIds(bucket)) |->
                    IF i = 1 THEN JObj([id |-> JU64(AskedIds(bucket)[i]), name |-> JStr("solo")])
                    ELSE SongJson(AskedIds(bucket)[i])])])
      [] shape = "noSongs"  -> EmptyObj
      [] shape = "notArray" -> JObj([songs |-> JNull])

\* the body upstream answers the playlist-detail request with
PlaylistResponse(shape) ==
    CASE shape[1] = "tracks" ->
            JObj([playlist |-> JObj([trackIds |-> JArr(TrackIdsArray(shape[2], shape[3]))])])
      [] shape[1] = "noPlaylist" -> EmptyObj
      [] shape[1] = "noTrackIds" -> JObj([playlist |-> EmptyObj])
      [] shape[1] = "notArray"   -> JObj([playlist |-> JObj([trackIds |-> JNull])])

\* the body upstream answers a lyric request with
LrcResponse(shape) ==
    CASE shape = "lyric"   -> JObj([lrc |-> JObj([lyric |-> JStr("[00:01.00]la")])])
      [] shape = "none"    -> EmptyObj
      [] shape = "notStr"  -> JObj([lrc |-> JObj([lyric |-> JNull])])
      [] shape = "lrcNull" -> JObj([lrc |-> JNull])

\* the text of a playback url, in the pieces Replace works on
UrlText(u) ==
    CASE u = "http"   -> <<"http://", "m7.music.126.net/a.mp3">>
      [] u = "https"  -> <<"https://", "m7.music.126.net/a.mp3">>
      [] u = "nested" -> <<"http://", "m7.music.126.net/a.mp3?from=", "http://", "y">>
      [] u = "empty"  -> <<>>

UrlField(u) == IF u = "null" THEN JNull ELSE JStr(UrlText(u))

\* data[0] of a player-url response: shape = <<kind, code, url, uf>>
UrlEntry(shape) ==
    LET keys == (IF shape[2] = "absent" THEN {} ELSE {"code"})
                \cup (IF shape[3] = "absent" THEN {} ELSE {"url"})
                \cup (IF shape[4] = "absent" THEN {} ELSE {"uf"})
    IN  JObj([k \in keys |->
            CASE k = "code" -> (CASE shape[2] = "str" -> JStr("200")
                                  [] shape[2] = "200" -> JU64(200)
                                  [] shape[2] = "404" -> JU64(404))
              [] k = "url"  -> UrlField(shape[3])
              [] k = "uf"   -> (IF shape[4] = "noUrl" THEN EmptyObj
                                ELSE JObj([url |-> JStr(UrlText(shape[4]))]))])

\* the body upstream answers a player-url request with
UrlResponse(shape) ==
    CASE shape[1] = "noData"   -> EmptyObj
      [] shape[1] = "notArray" -> JObj([data |-> JNull])
      [] shape[1] = "empty"    -> JObj([data |-> JArr(<<>>)])
      [] shape[1] = "entry"    -> JObj([data |-> JArr(<<UrlEntry(shape)>>)])

UrlShapes ==
    {<<"noData", "absent", "absent", "absent">>, <<"notArray", "absent", "absent", "absent">>,
     <<"empty", "absent", "absent", "absent">>}
    \cup ({"entry"} \X {"absent", "str", "200", "404"}
                    \X {"absent", "null", "empty", "http", "https", "nested"}
                    \X {"absent", "noUrl", "http"})

\* the body upstream answers the song-detail request of pic with
PicResponse(shape) ==
    CASE shape = "noSongs"   -> EmptyObj
      [] shape = "notArray"  -> JObj([songs |-> JNull])
      [] shape = "empty"     -> JObj([songs |-> JArr(<<>>)])
      [] shape = "noAl"      -> JObj([songs |-> JArr(<<EmptyObj>>)])
      [] shape = "noPicUrl"  -> JObj([songs |-> JArr(<<JObj([al |-> EmptyObj])>>)])
      [] shape = "picNotStr" -> JObj([songs |-> JArr(<<JObj([al |-> JObj([picUrl |-> JNull])])>>)])
      [] shape = "pic"       ->
            JObj([songs |-> JArr(<<JObj([al |-> JObj([picUrl |-> JStr("https://p1/c.jpg")])])>>)])

PicShapes == {"noSongs", "notArray", "empty", "noAl", "noPicUrl", "picNotStr", "pic"}

\* one element of an `ar` array
ArtistJson(kind) ==
    CASE kind = "A"      -> JObj([name |-> JStr("A")])
      [] kind = "C"      -> JObj([name |-> JStr("C")])
      [] kind = "noName" -> EmptyObj
      [] kind = "empty"  -> JObj([name |-> JStr("")])
      [] kind = "number" -> JObj([name |-> JU64(1)])

\* one record of an upstream songs array.  rec.idk, rec.namek and rec.ark
\* say what the fields `id`, `name` and `ar` are; rec.id, rec.name and
\* rec.ar (the kinds of the elements of `ar`) are their values
RecordJson(rec) ==
    LET keys == (IF rec.idk = "absent" THEN {} ELSE {"id"})
                \cup (IF rec.namek = "absent" THEN {} ELSE {"name"})
                \cup (IF rec.ark = "absent" THEN {} ELSE {"ar"})
    IN  JObj([k \in keys |->
            CASE k = "id"   -> (IF rec.idk = "str" THEN JStr(ToString(rec.id)) ELSE JU64(rec.id))
              [] k = "name" -> (IF rec.namek = "number" THEN JU64(1) ELSE JStr(rec.name))
              [] k = "ar"   -> (IF rec.ark = "null" THEN JNull
                                ELSE JArr([i \in 1..Len(rec.ar) |-> ArtistJson(rec.ar[i])]))])

Rec(idk, id, namek, name, ark, ar) ==
    [idk |-> idk, id |-> id, namek |-> namek, name |-> name, ark |-> ark, ar |-> ar]

\* the records upstream puts into the songs array of a search or of a
\* song-detail response
Records ==
    {Rec("u64", 7, "str", "seven", "array", <<"A", "C">>),
     Rec("u64", 8, "str", "eight", "array", <<"A", "noName", "C">>),
     Rec("u64", 9, "str", "nine", "array", <<>>),
     Rec("u64", 10, "str", "ten", "absent", <<>>),
     Rec("u64", 11, "str", "eleven", "null", <<>>),
     Rec("u64", 12, "absent", "", "array", <<"A">>),
     Rec("u64", 13, "number", "", "array", <<"A">>),
     Rec("absent", 14, "str", "noid", "array", <<"A">>),
     Rec("str", 15, "str", "strid", "array", <<"A">>)}

\* the body upstream answers the song-detail request of song with
SongResponse(shape) ==
    CASE shape[1] = "noSongs"  -> EmptyObj
      [] shape[1] = "notArray" -> JObj([songs |-> JNull])
      [] shape[1] = "songs"    ->
            JObj([songs |-> JArr([i \in 1..Len(shape[2]) |-> RecordJson(shape[2][i])])])

\* the body upstream answers a search request with
SearchResponse(shape) ==
    CASE shape[1] = "noResult" -> EmptyObj
      [] shape[1] = "noSongs"  -> JObj([result |-> EmptyObj])
      [] shape[1] = "notArray" -> JObj([result |-> JObj([songs |-> JNull])])
      [] shape[1] = "songs"    ->
            JObj([result |-> JObj([songs |->
                JArr([i \in 1..Len(shape[2]) |-> RecordJson(shape[2][i])])])])

\* songs arrays of at most MaxSongs records
RecordLists ==
    UNION {[1..n -> Records] : n \in 0..MaxSongs}

\* the id arguments the front-end passes on
IdArgs == {<<"7">>, <<"+", "7">>, <<"1", "2">>, <<>>, <<"x">>, <<"-", "7">>, <<"7", "x">>}

\* What the environment of a specification may do: the operations the
\* caller starts, the retry arguments, the outcomes of
\* WeapiEncoder::try_from_str and the bodies upstream answers with.
SharedWorld ==
    [ops      |-> {"lrc", "playlist", "artist"},
     retries  |-> {1},
     encode   |-> {TRUE},
     lists    |-> {<<"tracks", ITEM_PRE_REQUEST + 2, 0>>},
     details  |-> {"inOrder"},
     lyrics   |-> {"lyric"},
     ids      |-> {<<"7">>, <<"x">>},
     urls     |-> {},
     pics     |-> {},
     songs    |-> {},
     searches |-> {}]

ListWorld ==
    [ops      |-> {"playlist"},
     retries  |-> 0..MaxRetry,
     encode   |-> {TRUE, FALSE},
     lists    |-> {<<"tracks", n, 0>> :
                      n \in {0, 1} \cup {(b - 1) * ITEM_PRE_REQUEST + k : b \in 2..MaxBuckets, k \in {1, 2}}}
                  \cup {<<"tracks", ITEM_PRE_REQUEST + 2, 1>>, <<"noPlaylist", 0, 0>>,
                        <<"noTrackIds", 0, 0>>, <<"notArray", 0, 0>>},
     details  |-> {"inOrder", "reversed", "partial", "noSongs", "notArray"},
     lyrics   |-> {"lyric", "none"},
     ids      |-> {<<"7">>},
     urls     |-> {},
     pics     |-> {},
     songs    |-> {},
     searches |-> {}]

OpsWorld ==
    [ops      |-> {"url", "pic", "lrc", "song", "search", "playlist", "artist"},
     retries  |-> 0..MaxRetry,
     encode   |-> {TRUE, FALSE},
     lists    |-> {<<"tracks", 2, 0>>, <<"noPlaylist", 0, 0>>},
     details  |-> {"inOrder", "reversed", "partial", "noArtists", "noSongs", "notArray"},
     lyrics   |-> {"lyric", "none", "notStr", "lrcNull"},
     ids      |-> IdArgs,
     urls     |-> UrlShapes,
     pics     |-> PicShapes,
     songs    |-> {<<"noSongs", <<>>>>, <<"notArray", <<>>>>}
                  \cup {<<"songs", l>> : l \in RecordLists},
     searches |-> {<<"noResult", <<>>>>, <<"noSongs", <<>>>>, <<"notArray", <<>>>>}
                  \cup {<<"songs", l>> : l \in RecordLists}]

----------------------------------------------------------------------------
(* Netease::exec, netease.rs:319-340.  An exec is "acquire" while it waits *)
(* for a permit, "send" while it awaits send(), "json" while it awaits     *)
(* json(); the permit `_limit` is held from "send" on and dropped when     *)
(* exec returns.                                                           *)

Holding == {"send", "json"}

\* ReqError::Req(reqwest::Error), raised by send() or by json()
ReqErr(at) == [kind |-> "Req", at |-> at]

\* mutant: acquire never waits
PermitAvailable_Always == TRUE

\* line 324: counter.acquire() is ready when the semaphore has a permit
PermitAvailable == permits > 0

\* mutant: the permit is never given back
DropPermit_Kept(res) == permits

\* mutant: the permit is leaked when exec returns an error
DropPermit_OnlyOnOk(res) == IF res.ok THEN permits + 1 ELSE permits

\* the permits of the semaphore once exec has returned `res`: `_limit` is
\* dropped on every way out of lines 325-339
DropPermit(res) == permits + 1

\* the records of the tasks tokio::spawn started for call c
LazyTask == [st |-> "lazy", counter |-> 0, ex |-> "none", res |-> None, runs |-> 0]

InFlightCalls == {c \in Calls : ex[c] \in Holding}
InFlightTasks == {ci \in Calls \X (1..MaxBuckets) :
                    ci[2] \in DOMAIN task[ci[1]] /\ task[ci[1]][ci[2]].ex \in Holding}
InFlight == Cardinality(InFlightCalls) + Cardinality(InFlightTasks)

\* --- an operation is called: payload, envelope, then exec ---------------

EncodeErr == [kind |-> "Encode"]

\* the operations that parse their id before anything else
ParsesId == {"pic", "song"}

\* mutant: the id is only looked at once the response is there
IdAccepted_Late(o, id) == TRUE

\* pic lines 440-445 and song lines 512-517: id.parse::<u64>() must succeed
IdAccepted(o, id) == o \notin ParsesId \/ ParseU64(id).some

\* the trait methods `impl MetingApi for Netease` supplies (netease.rs:386-681);
\* artist is not among them
Overrides == {"url", "pic", "lrc", "song", "playlist", "search"}

\* mutant: a method the provider does not supply answers with an empty list
DefaultBody_Silent == Ok(<<>>)

\* the default body of every method of trait MetingApi, lib.rs:88-135
\* (artist: lines 107-115): async { Err(Error::Unimplemented) }
DefaultBody == Err(Unimplemented)

\* an operation is called and runs up to its first await: the id is parsed
\* (pic, song), the payload is serialised and enveloped, exec is called
\* (url 407-418, pic 440-461, lrc 485-497, song 512-533, playlist 562-571,
\* search 648-660); a method the provider does not override runs the
\* default body of the trait
Start(c, w) ==
    /\ pc[c] = "idle"
    /\ \E o \in w.ops, enc \in w.encode :
         \E r \in (IF o = "playlist" THEN w.retries ELSE {0}),
            id \in (IF o \in ParsesId \/ o \notin Overrides THEN w.ids ELSE {<<"7">>}) :
            /\ op' = [op EXCEPT ![c] = o]
            /\ retryArg' = [retryArg EXCEPT ![c] = r]
            /\ idArg' = [idArg EXCEPT ![c] = id]
            /\ IF o \notin Overrides
               THEN /\ pc' = [pc EXCEPT ![c] = "done"]
                    /\ result' = [result EXCEPT ![c] = Some(DefaultBody)]
                    /\ UNCHANGED <<ex, execs>>
               ELSE IF ~IdAccepted(o, id)
               THEN /\ pc' = [pc EXCEPT ![c] = "done"]
                    /\ result' = [result EXCEPT ![c] =
                                     Some(Err(TypeMismatch("<id>", "u64")))]
                    /\ UNCHANGED <<ex, execs>>
               ELSE IF enc
               THEN /\ pc' = [pc EXCEPT ![c] = "exec"]
                    /\ ex' = [ex EXCEPT ![c] = "acquire"]
                    /\ execs' = [execs EXCEPT ![c] = @ + 1]
                    /\ UNCHANGED result
               ELSE /\ pc' = [pc EXCEPT ![c] = "done"]
                    /\ result' = [result EXCEPT ![c] = Some(Err(EncodeErr))]
                    /\ UNCHANGED <<ex, execs>>
    /\ UNCHANGED <<permits, bucket_set, idx, task, outputs, body>>

\* --- exec awaited directly by the operation ------------------------------

\* line 324: a permit is available
ExecAcquire(c) ==
    /\ pc[c] = "exec" /\ ex[c] = "acquire"
    /\ PermitAvailable
    /\ permits' = permits - 1
    /\ ex' = [ex EXCEPT ![c] = "send"]
    /\ UNCHANGED <<pc, op, idArg, execs, body, retryArg, bucket_set, idx, task, outputs, result>>

\* lines 334-336: send() succeeded
ExecSendOk(c) ==
    /\ pc[c] = "exec" /\ ex[c] = "send"
    /\ ex' = [ex EXCEPT ![c] = "json"]
    /\ UNCHANGED <<permits, pc, op, idArg, execs, body, retryArg, bucket_set, idx, task, outputs, result>>

\* --- url, netease.rs:406-437 ----------------------------------------------

\* A url is the sequence of the pieces "http://" splits it into, with the
\* separators kept: <<"http://", "m7.music.126.net/a.mp3">>.
\* str::replace("http://", "https://") at line 435
Replace(s) == [i \in 1..Len(s) |-> IF s[i] = "http://" THEN "https://" ELSE s[i]]

\* mutant: the code of the entry is not looked at
CodeMatch_Any(x) == Ok("unit")

\* lines 427-430
CodeMatch(x) == IF x = 200 THEN Ok("unit") ELSE Err(ErrorNone)

\* lines 431-432: json.get("url").or_else(|| json.get("uf")?.get("url"))
UrlOrUf(json) ==
    IF Get(json, "url").some THEN Get(json, "url") ELSE GetIn(json, "uf", "url")

\* lines 420-436: from the first entry of `data` to the result
UrlOfEntry(json) ==
    LET code == Get(json, "code")
        url  == UrlOrUf(json)
    IN  IF ~code.some THEN Err(NoField("code"))
        ELSE IF ~As_u64(code.v).some THEN Err(TypeMismatch("code", "u64"))
        ELSE IF ~CodeMatch(As_u64(code.v).v).ok THEN CodeMatch(As_u64(code.v).v)
        ELSE IF ~url.some THEN Err(NoField("json.url / json.uf.url"))
        ELSE IF ~As_str(url.v).some
             THEN Err(TypeMismatch("json.url / json.uf.url", "str"))
             ELSE Ok(Replace(As_str(url.v).v))

\* lines 410-436
UrlResult(data) ==
    LET d == Get(data, "data")
    IN  IF ~d.some THEN Err(NoField("data"))
        ELSE IF ~As_array(d.v).some THEN Err(TypeMismatch("data", "array"))
        ELSE IF As_array(d.v).v = <<>> THEN Err(ErrorNone)
        ELSE UrlOfEntry(As_array(d.v).v[1])

\* --- pic, netease.rs:439-482 ----------------------------------------------

\* lines 464-481
PicResult(hash_map) ==
    LET songs == Get(hash_map, "songs")
    IN  IF ~songs.some THEN Err(NoField("songs"))
        ELSE IF ~As_array(songs.v).some THEN Err(TypeMismatch(".songs", "array"))
        ELSE LET i == As_array(songs.v).v
                 p == IF i = <<>> THEN None ELSE GetIn(i[1], "al", "picUrl")
             IN  IF ~p.some THEN Err(NoField(".songs.0.al.picUrl"))
                 ELSE IF ~As_str(p.v).some
                      THEN Err(TypeMismatch("songs.0.al.picUrl", "str"))
                      ELSE Ok(As_str(p.v).v)

\* --- song, netease.rs:505-552 ---------------------------------------------

\* Option::unwrap on None: the thread of the handler panics and no value
\* is returned
Panic == [panic |-> TRUE]
IsPanic(r) == "panic" \in DOMAIN r

\* lines 535-551; the text of the constant GET_ID_NAME_PIC_ARTIST_ERR_MSG
\* (lines 343-348) is stood for by its name
SongResult(json) ==
    LET songs == Get(json, "songs")
    IN  IF ~songs.some THEN Panic
        ELSE IF ~As_array(songs.v).some THEN Panic
        ELSE IF As_array(songs.v).v = <<>> THEN Panic
        ELSE LET t == get_id_name_artist(As_array(songs.v).v[1])
             IN  IF ~t.some THEN Err(NoField("GET_ID_NAME_PIC_ARTIST_ERR_MSG"))
                 ELSE Ok(MetingSong(t.v))

\* --- search, netease.rs:640-680 -------------------------------------------

\* lines 661-679
SearchResult(json) ==
    LET songs == GetIn(json, "result", "songs")
    IN  IF ~songs.some THEN Err(NoField(".result.songs"))
        ELSE IF ~As_array(songs.v).some
             THEN Err(TypeMismatch(".result.songs", "array"))
             ELSE Ok(SongsOf(As_array(songs.v).v))

\* mutant: a response without a lyric is an error
LrcResult_Strict(json) ==
    LET lyric == LET v == GetIn(json, "lrc", "lyric")
                     IN  IF v.some THEN As_str(v.v) ELSE None
    IN  IF lyric.some THEN Ok(lyric.v) ELSE Err(NoField(".lrc.lyric"))

\* lrc lines 498-502; the placeholder literal of line 500 is spelled in ASCII
LrcResult(json) ==
    LET lyric == LET v == GetIn(json, "lrc", "lyric")
                     IN  IF v.some THEN As_str(v.v) ELSE None
    IN  Ok(IF lyric.some THEN lyric.v ELSE "[00:00.00]no lyric")

\* playlist lines 571-579: the trackIds array of the response
PlaylistTrackIds(json) ==
    LET track_ids == GetIn(json, "playlist", "trackIds")
    IN  IF ~track_ids.some THEN Err(NoField(".playlist.trackIds"))
        ELSE IF ~As_array(track_ids.v).some
             THEN Err(TypeMismatch(".player.trackIds", "array"))
             ELSE Ok(As_array(track_ids.v).v)

\* what an operation other than playlist makes of the decoded response
OpResult(o, json) ==
    CASE o = "url"    -> UrlResult(json)
      [] o = "pic"    -> PicResult(json)
      [] o = "lrc"    -> LrcResult(json)
      [] o = "song"   -> SongResult(json)
      [] o = "search" -> SearchResult(json)

\* map_err at lines 418, 461, 497, 533, 571 and 660
ExecError(o, e) == IF o = "search" THEN Server(e) ELSE Remote(e)

\* mutant: playlist asks for the track-id list again while `retry` allows
AfterExecErr_Retry(o, r, n) == IF o = "playlist" /\ n <= r THEN "again" ELSE "return"

\* the `?` after map_err: operation o, called with retry r, whose n-th
\* execution failed, returns the error; no operation wraps its own exec in
\* retry(..)
AfterExecErr(o, r, n) == "return"

\* exec returned `res` to the operation that awaited it: the permit is
\* dropped and the operation runs on to its next await or to its return
ExecReturn(c, res) ==
    /\ permits' = DropPermit(res)
    /\ IF ~res.ok
       THEN IF AfterExecErr(op[c], retryArg[c], execs[c]) = "again"
            THEN /\ ex' = [ex EXCEPT ![c] = "acquire"]
                 /\ execs' = [execs EXCEPT ![c] = @ + 1]
                 /\ UNCHANGED <<pc, result, bucket_set, task, body>>
            ELSE /\ ex' = [ex EXCEPT ![c] = "none"]
                 /\ pc' = [pc EXCEPT ![c] = "done"]
                 /\ result' = [result EXCEPT ![c] = Some(Err(ExecError(op[c], res.e)))]
                 /\ UNCHANGED <<bucket_set, task, body, execs>>
       ELSE IF op[c] # "playlist"
       THEN \* the response is bound and worked through without another await
            /\ ex' = [ex EXCEPT ![c] = "none"]
            /\ body' = [body EXCEPT ![c] = Some(res.v)]
            /\ IF IsPanic(OpResult(op[c], res.v))
               THEN /\ pc' = [pc EXCEPT ![c] = "panicked"]
                    /\ UNCHANGED result
               ELSE /\ pc' = [pc EXCEPT ![c] = "done"]
                    /\ result' = [result EXCEPT ![c] = Some(OpResult(op[c], res.v))]
            /\ UNCHANGED <<bucket_set, task, execs>>
       ELSE LET ids == PlaylistTrackIds(res.v)
            IN  /\ ex' = [ex EXCEPT ![c] = "none"]
                /\ UNCHANGED <<body, execs>>
                /\ IF ~ids.ok
                   THEN /\ pc' = [pc EXCEPT ![c] = "done"]
                        /\ result' = [result EXCEPT ![c] = Some(ids)]
                        /\ UNCHANGED <<bucket_set, task>>
                   ELSE \* lines 580-613: buckets, the lazy `tasks`, `outputs`
                        /\ pc' = [pc EXCEPT ![c] = "next"]
                        /\ bucket_set' = [bucket_set EXCEPT ![c] = Buckets(ids.v)]
                        /\ task' = [task EXCEPT ![c] =
                                      [i \in 1..Len(bucket_set'[c]) |-> LazyTask]]
                        /\ UNCHANGED result
    /\ UNCHANGED <<op, idArg, retryArg, idx, outputs>>

\* lines 334-336: send() failed
ExecSendErr(c) ==
    /\ pc[c] = "exec" /\ ex[c] = "send"
    /\ ExecReturn(c, Err(ReqErr("send")))

\* lines 337-339: the body is not JSON of the expected shape
ExecJsonErr(c) ==
    /\ pc[c] = "exec" /\ ex[c] = "json"
    /\ ExecReturn(c, Err(ReqErr("json")))

\* the shapes of the bodies upstream may answer the request of operation o
\* with, and the body of a shape
Shapes(o, w) ==
    CASE o = "url"      -> w.urls
      [] o = "pic"      -> w.pics
      [] o = "lrc"      -> w.lyrics
      [] o = "song"     -> w.songs
      [] o = "search"   -> w.searches
      [] o = "playlist" -> w.lists

Response(o, shape) ==
    CASE o = "url"      -> UrlResponse(shape)
      [] o = "pic"      -> PicResponse(shape)
      [] o = "lrc"      -> LrcResponse(shape)
      [] o = "song"     -> SongResponse(shape)
      [] o = "search"   -> SearchResponse(shape)
      [] o = "playlist" -> PlaylistResponse(shape)

\* lines 337-339: the body is decoded
ExecJsonOk(c, w) ==
    /\ pc[c] = "exec" /\ ex[c] = "json"
    /\ \E shape \in Shapes(op[c], w) : ExecReturn(c, Ok(Response(op[c], shape)))

\* --- playlist: the loop `for task in tasks`, netease.rs:596-637 ----------

\* `tasks` is a lazy iterator: each step of the loop pulls one bucket
\* through lines 597-612 (serialise, encode, retry(..), tokio::spawn) and
\* then awaits the JoinHandle it got.
\* mutant: the iterator is collected, every remaining task is spawned at
\* the first step
Yielded_Collected(k, n) == k..n

\* lines 596-614: `tasks` is a lazy iterator chain, so asking it for item k
\* of n maps (and spawns) item k alone
Yielded(k, n) == {k}

PlaylistNext(c, w) ==
    /\ pc[c] = "next"
    /\ IF idx[c] = Len(bucket_set[c])
       THEN \* the iterator is exhausted: line 637
            /\ pc' = [pc EXCEPT ![c] = "done"]
            /\ result' = [result EXCEPT ![c] = Some(Ok(outputs[c]))]
            /\ UNCHANGED <<idx, task>>
       ELSE /\ idx' = [idx EXCEPT ![c] = idx[c] + 1]
            /\ UNCHANGED result
            /\ \E enc \in w.encode :
                 IF enc
                 THEN \* line 612: the task is spawned and starts exec
                      /\ task' = [task EXCEPT ![c] =
                            [i \in DOMAIN @ |->
                               IF i \in Yielded(idx[c] + 1, Len(@)) /\ @[i].st = "lazy"
                               THEN [@[i] EXCEPT !.st = "run", !.ex = "acquire", !.runs = 1]
                               ELSE @[i]]]
                      /\ pc' = [pc EXCEPT ![c] = "await"]
                 ELSE \* line 600: filter_map drops the bucket
                      /\ task' = [task EXCEPT ![c][idx[c] + 1] = [@ EXCEPT !.st = "skipped"]]
                      /\ UNCHANGED pc
    /\ UNCHANGED <<permits, op, ex, idArg, execs, body, retryArg, bucket_set, outputs>>

\* mutant: a body without a songs array counts as an empty one
DetailSongs_Lenient(json) ==
    LET songs == Get(json, "songs")
    IN  IF ~songs.some THEN Ok(<<>>)
        ELSE IF ~As_array(songs.v).some THEN Ok(<<>>)
             ELSE Ok(As_array(songs.v).v)

\* lines 619-625: the songs array of a song-detail response
DetailSongs(json) ==
    LET songs == Get(json, "songs")
    IN  IF ~songs.some THEN Err(NoField("<song-detal>.songs"))
        ELSE IF ~As_array(songs.v).some
             THEN Err(TypeMismatch("<song-detal>.songs", "array"))
             ELSE Ok(As_array(songs.v).v)

\* mutant: the songs of a response are put in front of the earlier ones
PushSongs_Front(out, songs) == songs \o out

\* `outputs` after the songs of one response have been pushed
PushSongs(out, songs) == out \o songs

\* mutant: a failed task ends the call with its error
JoinOutcome_FailFast(res, out) ==
    IF ~res.ok
    THEN [go |-> "done", out |-> out, ret |-> Some(Err(Remote(res.e)))]
    ELSE IF ~DetailSongs(res.v).ok
    THEN [go |-> "done", out |-> out, ret |-> Some(DetailSongs(res.v))]
    ELSE [go |-> "next", out |-> PushSongs(out, SongsOf(DetailSongs(res.v).v)),
          ret |-> None]

\* lines 615-635: what the loop does with the output `res` of a joined
\* task when `outputs` is `out`: go on with the next task or return
JoinOutcome(res, out) ==
    IF ~res.ok
    THEN \* line 616: continue
         [go |-> "next", out |-> out, ret |-> None]
    ELSE IF ~DetailSongs(res.v).ok
    THEN \* the `?` at lines 620 and 625
         [go |-> "done", out |-> out, ret |-> Some(DetailSongs(res.v))]
    ELSE [go |-> "next", out |-> PushSongs(out, SongsOf(DetailSongs(res.v).v)),
          ret |-> None]

\* the record of a task whose JoinHandle was awaited: the body of an Ok
\* output is remembered, the error of an Err output is dropped by `continue`
Joined(res) ==
    [LazyTask EXCEPT !.st = "joined", !.res = IF res.ok THEN Some(res) ELSE None]

\* line 615: the awaited JoinHandle is ready
PlaylistJoin(c) ==
    /\ pc[c] = "await"
    /\ task[c][idx[c]].st = "fin"
    /\ task' = [task EXCEPT ![c][idx[c]] = Joined(task[c][idx[c]].res.v)]
    /\ LET o == JoinOutcome(task[c][idx[c]].res.v, outputs[c])
       IN  /\ pc' = [pc EXCEPT ![c] = o.go]
           /\ outputs' = [outputs EXCEPT ![c] = o.out]
           /\ result' = [result EXCEPT ![c] = o.ret]
    /\ UNCHANGED <<permits, op, ex, idArg, execs, body, retryArg, bucket_set, idx>>

\* --- the spawned task: retry around exec, lines 602-610 ------------------

Running(c, i) == i \in DOMAIN task[c] /\ task[c][i].st = "run"

TaskAcquire(c, i) ==
    /\ Running(c, i) /\ task[c][i].ex = "acquire"
    /\ PermitAvailable
    /\ permits' = permits - 1
    /\ task' = [task EXCEPT ![c][i] = [@ EXCEPT !.ex = "send"]]
    /\ UNCHANGED <<pc, op, ex, idArg, execs, body, retryArg, bucket_set, idx, outputs, result>>

TaskSendOk(c, i) ==
    /\ Running(c, i) /\ task[c][i].ex = "send"
    /\ task' = [task EXCEPT ![c][i] = [@ EXCEPT !.ex = "json"]]
    /\ UNCHANGED <<permits, pc, op, ex, idArg, execs, body, retryArg, bucket_set, idx, outputs, result>>

\* exec returned `res` to retry: the permit is dropped, and retry either
\* breaks (the task finishes) or calls exec again
TaskExecReturn(c, i, res) ==
    /\ permits' = DropPermit(res)
    /\ LET m == RetryMatch(res, task[c][i].counter, retryArg[c])
       IN  task' = [task EXCEPT ![c][i] =
                IF m.brk
                THEN [@ EXCEPT !.st = "fin", !.ex = "none", !.res = m.ret]
                ELSE [@ EXCEPT !.ex = "acquire", !.counter = m.counter,
                               !.runs = @ + 1]]
    /\ UNCHANGED <<pc, op, ex, idArg, execs, body, retryArg, bucket_set, idx, outputs, result>>

TaskSendErr(c, i) ==
    /\ Running(c, i) /\ task[c][i].ex = "send"
    /\ TaskExecReturn(c, i, Err(ReqErr("send")))

TaskJsonErr(c, i) ==
    /\ Running(c, i) /\ task[c][i].ex = "json"
    /\ TaskExecReturn(c, i, Err(ReqErr("json")))

TaskJsonOk(c, i, w) ==
    /\ Running(c, i) /\ task[c][i].ex = "json"
    /\ \E shape \in w.details :
          TaskExecReturn(c, i, Ok(DetailResponse(shape, bucket_set[c][i])))

\* --- the front-end handler renders the result and ends -------------------

Return(c) ==
    /\ pc[c] \in {"done", "panicked"}
    /\ pc' = [pc EXCEPT ![c] = "idle"]
    /\ op' = [op EXCEPT ![c] = "none"]
    /\ retryArg' = [retryArg EXCEPT ![c] = 0]
    /\ bucket_set' = [bucket_set EXCEPT ![c] = <<>>]
    /\ idx' = [idx EXCEPT ![c] = 0]
    /\ task' = [task EXCEPT ![c] = <<>>]
    /\ outputs' = [outputs EXCEPT ![c] = <<>>]
    /\ result' = [result EXCEPT ![c] = None]
    /\ idArg' = [idArg EXCEPT ![c] = <<>>]
    /\ execs' = [execs EXCEPT ![c] = 0]
    /\ body' = [body EXCEPT ![c] = None]
    /\ UNCHANGED <<permits, ex>>

----------------------------------------------------------------------------
(* Specifications *)

CallsIdle ==
    /\ permits = Capacity
    /\ pc = [c \in Calls |-> "idle"]
    /\ op = [c \in Calls |-> "none"]
    /\ idArg = [c \in Calls |-> <<>>]
    /\ execs = [c \in Calls |-> 0]
    /\ body = [c \in Calls |-> None]
    /\ ex = [c \in Calls |-> "none"]
    /\ retryArg = [c \in Calls |-> 0]
    /\ bucket_set = [c \in Calls |-> <<>>]
    /\ idx = [c \in Calls |-> 0]
    /\ task = [c \in Calls |-> <<>>]
    /\ outputs = [c \in Calls |-> <<>>]
    /\ result = [c \in Calls |-> None]

RetryIdle ==
    /\ r_limit = 0 /\ r_counter = 0 /\ r_pc = "done"
    /\ r_attempts = <<>> /\ r_onerr = <<>> /\ r_result = None

BatchIdle ==
    /\ b_pc = "done" /\ b_trackIds = <<>> /\ b_buckets = <<>>

NormIdle ==
    /\ n_pc = "done" /\ n_in = Rec("absent", 0, "absent", "", "absent", <<>>) /\ n_out = None

\* mutant: the process starts with the largest budget of the model
RETRY_Initial_Max == MaxRetry

\* main.rs:59: the budget the process starts with, RwLock::new(0)
RETRY_Initial == 0

MainIdle == RETRY = RETRY_Initial

ReqIdle ==
    /\ sr_pc = "done" /\ sr_options = [limit |-> Usize(0), page |-> Usize(0), type |-> 0] /\ sr_req = None

KeyIdle ==
    /\ k_pc = "done" /\ k_rng = Err("OsError")
    /\ k_skey = None /\ k_block = None /\ k_out = None

IpIdle ==
    /\ ip_pc = "done" /\ ip_in = <<0, 0, 0, 0>> /\ ip_out = None

PureIdle == ReqIdle /\ KeyIdle /\ IpIdle

\* the steps of call c in the world w
CallStep(c, w) ==
    \/ Start(c, w)
    \/ ExecAcquire(c)
    \/ ExecSendOk(c)
    \/ ExecSendErr(c)
    \/ ExecJsonErr(c)
    \/ ExecJsonOk(c, w)
    \/ PlaylistNext(c, w)
    \/ PlaylistJoin(c)
    \/ \E i \in 1..MaxBuckets :
          \/ TaskAcquire(c, i)
          \/ TaskSendOk(c, i)
          \/ TaskSendErr(c, i)
          \/ TaskJsonErr(c, i)
          \/ TaskJsonOk(c, i, w)
    \/ Return(c)

\* Spec: NumCalls callers of the provider (the front-end's handlers or any
\* other user of the library) share the permit pool
Init == CallsIdle /\ RetryIdle /\ BatchIdle /\ NormIdle /\ PureIdle /\ MainIdle
Next == \E c \in Calls : CallStep(c, SharedWorld) /\ UNCHANGED <<retryVars, batchVars, normVars, pureVars, mainVars>>
Spec == Init /\ [][Next]_vars

\* SpecLive: Spec as tokio schedules it.
\*  - Every request that holds a permit is answered or fails, and a future
\*    that can run is polled: weak fairness of Progress(c).  In each state
\*    where the decoded answer is possible the failure is possible too, so
\*    the steps ExecJsonOk and TaskJsonOk need not be named.
\*  - The semaphore queues its waiters in order of arrival, so a waiter is
\*    served once permits have been returned often enough: strong fairness
\*    of the acquisitions.
\*  - The loop of playlist is woken when the JoinHandle it awaits is ready:
\*    weak fairness of PlaylistJoin(c), written out with JoinReady(c) for
\*    ENABLED <<PlaylistJoin(c)>>_vars.
Progress(c) ==
    /\ UNCHANGED <<retryVars, batchVars, normVars, pureVars, mainVars>>
    /\ \/ ExecSendOk(c) \/ ExecSendErr(c) \/ ExecJsonErr(c)
       \/ PlaylistNext(c, SharedWorld)
       \/ \E i \in 1..MaxBuckets :
             TaskSendOk(c, i) \/ TaskSendErr(c, i) \/ TaskJsonErr(c, i)
       \/ Return(c)
JoinReady(c) == pc[c] = "await" /\ task[c][idx[c]].st = "fin"
Fairness ==
    \A c \in Calls :
        /\ WF_vars(Progress(c))
        /\ SF_vars(ExecAcquire(c) /\ UNCHANGED <<retryVars, batchVars, normVars, pureVars, mainVars>>)
        /\ \A i \in 1..MaxBuckets :
              SF_vars(TaskAcquire(c, i) /\ UNCHANGED <<retryVars, batchVars, normVars, pureVars, mainVars>>)
        /\ \/ []<>~JoinReady(c)
           \/ []<><<PlaylistJoin(c) /\ UNCHANGED <<retryVars, batchVars, normVars, pureVars, mainVars>>>>_vars
SpecLive == Init /\ [][Next]_vars /\ Fairness

\* SpecList: one playlist request, every upstream answer
NextList == CallStep(1, ListWorld) /\ UNCHANGED <<retryVars, batchVars, normVars, pureVars, mainVars>>
SpecList == Init /\ [][NextList]_vars

\* SpecOps: one request of any operation, every id and upstream answer
NextOps == CallStep(1, OpsWorld) /\ UNCHANGED <<retryVars, batchVars, normVars, pureVars, mainVars>>
SpecOps == Init /\ [][NextOps]_vars

\* SpecRetry: one run of retry for every limit
InitRetry ==
    /\ CallsIdle /\ BatchIdle /\ NormIdle /\ PureIdle /\ MainIdle
    /\ r_limit \in 0..U8Max
    /\ r_counter = 0 /\ r_pc = "task"
    /\ r_attempts = <<>> /\ r_onerr = <<>> /\ r_result = None
NextRetry == RetryTaskOk \/ RetryTaskErr
SpecRetry == InitRetry /\ [][NextRetry]_vars

----------------------------------------------------------------------------
(* SpecBatch: the partition alone *)

BatchFold ==
    /\ b_pc = "input"
    /\ b_buckets' = Buckets(b_trackIds)
    /\ b_pc' = "done"
    /\ UNCHANGED <<b_trackIds, callVars, retryVars, normVars, pureVars, mainVars>>

InitBatch ==
    /\ CallsIdle /\ RetryIdle /\ NormIdle /\ PureIdle /\ MainIdle
    /\ b_pc = "input"
    /\ \E n \in 0..MaxIds : \E bad \in BadAt(n) : b_trackIds = TrackIdsArray(n, bad)
    /\ b_buckets = <<>>
NextBatch == BatchFold
SpecBatch == InitBatch /\ [][NextBatch]_vars

----------------------------------------------------------------------------
(* SpecNorm: get_id_name_artist alone, applied to one upstream record *)

ArtistKinds == {"A", "C", "noName", "empty", "number"}

\* the records of the model: every kind of `id` and of `name`, `ar` absent,
\* null or an array of at most MaxArtists elements
NormInputs ==
    {Rec(idk, 7, namek, IF namek = "str" THEN "seven" ELSE "", ark, ar) :
        idk \in {"u64", "absent", "str"}, namek \in {"str", "absent", "number"},
        ark \in {"absent", "null"}, ar \in {<<>>}}
    \cup
    {Rec(idk, 7, namek, IF namek = "str" THEN "seven" ELSE "", "array", ar) :
        idk \in {"u64", "absent", "str"}, namek \in {"str", "absent", "number"},
        ar \in UNION {[1..n -> ArtistKinds] : n \in 0..MaxArtists}}

Normalise ==
    /\ n_pc = "input"
    /\ n_out' = get_id_name_artist(RecordJson(n_in))
    /\ n_pc' = "done"
    /\ UNCHANGED <<n_in, callVars, retryVars, batchVars, pureVars, mainVars>>

InitNorm ==
    /\ CallsIdle /\ RetryIdle /\ BatchIdle /\ PureIdle /\ MainIdle
    /\ n_pc = "input" /\ n_in \in NormInputs /\ n_out = None
NextNorm == Normalise
SpecNorm == InitNorm /\ [][NextNorm]_vars

\* SpecFront: one request to a route of the front-end (main.rs:367-376).  The
\* handlers pass the id of the path on as it is, get_playlist passes
\* *RETRY.read().await as the retry argument (main.rs:245-253), and no
\* statement of the program writes RETRY.
FrontWorld ==
    [OpsWorld EXCEPT !.retries = {RETRY},
                     !.lists = {<<"tracks", n, 0>> :
                                   n \in {0, 1, ITEM_PRE_REQUEST + 1, 2 * ITEM_PRE_REQUEST + 2}}
                               \cup {<<"noPlaylist", 0, 0>>}]
NextFront == CallStep(1, FrontWorld) /\ UNCHANGED <<retryVars, batchVars, normVars, pureVars, mainVars>>
SpecFront == Init /\ [][NextFront]_vars

----------------------------------------------------------------------------
(* SpecSearchReq: SearchReq::new alone, netease.rs:217-228 *)

\* largest page and largest limit SpecSearchReq counts up to
MaxPage == 4
MaxLimit == 3

\* mutant: page 0 is not normalised
PageOf_Raw(page) == page

\* line 219: let page = if options.page == 0 { 1 } else { options.page }
PageOf(page) == IF IsZero(page) THEN Usize(1) ELSE page

\* lines 220-226.  `(page - 1) * options.limit` is a usize multiplication:
\* when the product does not fit, a build with overflow checks (the dev
\* profile) panics and a build without (the release profile) keeps the
\* product modulo 2^64.  `s` is passed through and left out.
SearchReq_new(options) ==
    LET page    == PageOf(options.page)
        product == WideMul(WDec(page), options.limit)
        req     == [type |-> options.type, limit |-> options.limit,
                    total |-> TRUE, offset |-> Low(product)]
    IN  IF Overflows(product) THEN {Panic, req} ELSE {req}

\* the values of `page` and of `limit` the model tries: the small ones, the
\* front-end's 30 (main.rs:346) and values at the edges of usize
BigUsizes == {Pow2(32), Pow2(63), [Pow2(63) EXCEPT ![1] = 1], UsizeMax}
Pages  == {Usize(n) : n \in 0..MaxPage} \cup BigUsizes
Limits == {Usize(n) : n \in 0..MaxLimit} \cup {Usize(30)} \cup BigUsizes

NewSearchReq ==
    /\ sr_pc = "input"
    /\ \E req \in SearchReq_new(sr_options) : sr_req' = Some(req)
    /\ sr_pc' = "done"
    /\ UNCHANGED <<sr_options, callVars, retryVars, batchVars, normVars, keyVars, ipVars, mainVars>>

InitSearchReq ==
    /\ CallsIdle /\ RetryIdle /\ BatchIdle /\ NormIdle /\ KeyIdle /\ IpIdle /\ MainIdle
    /\ sr_pc = "input"
    /\ \E page \in Pages, limit \in Limits :
          sr_options = [limit |-> limit, page |-> page, type |-> 0]
    /\ sr_req = None
NextSearchReq == NewSearchReq
SpecSearchReq == InitSearchReq /\ [][NextSearchReq]_vars

----------------------------------------------------------------------------
(* SpecKey: the key handling of WeapiEncoder::try_from_str,                *)
(* netease.rs:46-91.  Bytes are numbers 0..255, texts are their bytes.     *)

\* line 50: let mut skey = [0u8; 16]
SkeyLen == 16
\* line 80: vec![0u8; 128 - skey.len()]
BlockLen == 128
\* rsa.size() (line 79) for the bundled public key cert/netease.pub, which
\* takes blocks of 128 bytes
RsaSize == 128

\* the bytes lo, lo + 1, .., hi
Range(lo, hi) == [i \in 1..(hi - lo + 1) |-> lo + i - 1]

\* line 54: "abcdefghijklmnopqrstuvwxyzABCDEFGHIJKLMNOPQRSTUVWXYZ0123456789"
\* .as_bytes(): "a" is 97, "A" is 65, "0" is 48
base62 == Range(97, 122) \o Range(65, 90) \o Range(48, 57)

\* mutant: the random byte is used as it is
KeyByte_Raw(index) == index

\* line 59: base62[(index % 62) as usize]
KeyByte(index) == base62[(index % 62) + 1]

\* lines 57-60
MapKey(skey) == [i \in 1..Len(skey) |-> KeyByte(skey[i])]

\* String::from_utf8: the bytes must be well-formed UTF-8
RECURSIVE Utf8Valid(_, _)
Utf8Valid(b, i) ==
    IF i > Len(b) THEN TRUE
    ELSE LET x == b[i]
             Cont(j) == j <= Len(b) /\ b[j] >= 128 /\ b[j] <= 191
         IN  IF x < 128 THEN Utf8Valid(b, i + 1)
             ELSE IF x >= 194 /\ x <= 223
             THEN Cont(i + 1) /\ Utf8Valid(b, i + 2)
             ELSE IF x >= 224 /\ x <= 239
             THEN /\ Cont(i + 1) /\ Cont(i + 2)
                  /\ (x = 224 => b[i + 1] >= 160) /\ (x = 237 => b[i + 1] <= 159)
                  /\ Utf8Valid(b, i + 3)
             ELSE IF x >= 240 /\ x <= 244
             THEN /\ Cont(i + 1) /\ Cont(i + 2) /\ Cont(i + 3)
                  /\ (x = 240 => b[i + 1] >= 144) /\ (x = 244 => b[i + 1] <= 143)
                  /\ Utf8Valid(b, i + 4)
             ELSE FALSE

from_utf8(b) == IF Utf8Valid(b, 1) THEN Ok(b) ELSE Err("FromUtf8Error")

ParseErr(kind) == [kind |-> kind]

Zeros(n) == [i \in 1..n |-> 0]

\* try_from_str given what OsRng answered: Err, or Ok of the 16 bytes it
\* filled in.  The two AES encryptions (lines 62-71) take 16-byte keys and
\* give `params`; their ciphertexts are not modelled.  The value is the
\* result together with the key and the block handed to RSA, if it got
\* that far.
try_from_str(rng) ==
    IF ~rng.ok
    THEN [out |-> Err(ParseErr("GenRandomNumber")), skey |-> None, block |-> None]
    ELSE LET skey == MapKey(rng.v)
             rev  == from_utf8(Reverse(skey))
         IN  IF ~rev.ok
             THEN [out |-> Err(ParseErr("EncodeRevStr")), skey |-> Some(skey),
                   block |-> None]
             ELSE LET y == Zeros(BlockLen - Len(rev.v)) \o rev.v
                  IN  [out   |-> IF Len(y) = RsaSize
                                 THEN Ok([params |-> "base64", enc_sec_key |-> "hex"])
                                 ELSE Err(ParseErr("EncodeKey")),
                       skey  |-> Some(skey),
                       block |-> Some(y)]

\* what fills the bytes of the raw key that are not varied
Fills == {0, 255}
\* the raw keys of the model: every byte takes every value 0..255
RawKeys ==
    {[i \in 1..SkeyLen |-> IF i = p THEN b ELSE f] :
        p \in 1..SkeyLen, b \in 0..255, f \in Fills}

Encode ==
    /\ k_pc = "input"
    /\ LET r == try_from_str(k_rng)
       IN  k_out' = Some(r.out) /\ k_skey' = r.skey /\ k_block' = r.block
    /\ k_pc' = "done"
    /\ UNCHANGED <<k_rng, callVars, retryVars, batchVars, normVars, reqVars, ipVars, mainVars>>

InitKey ==
    /\ CallsIdle /\ RetryIdle /\ BatchIdle /\ NormIdle /\ ReqIdle /\ IpIdle /\ MainIdle
    /\ k_pc = "input"
    /\ k_rng \in {Err("OsError")} \cup {Ok(raw) : raw \in RawKeys}
    /\ k_skey = None /\ k_block = None /\ k_out = None
NextKey == Encode
SpecKey == InitKey /\ [][NextKey]_vars

----------------------------------------------------------------------------
(* SpecIp: IpStr::from(u32), netease.rs:272-286.  A u32 is written as its  *)
(* four bytes from the least significant one.                              *)

\* bytes of a u32
U32Bytes == 4

\* the u32 of value n, for n below 2^31
U32(n) == LimbsOf(n, U32Bytes)

\* a >> n
Shr(a, n) ==
    LET q == n \div 8
        r == n % 8
        At(i) == IF i \in DOMAIN a THEN a[i] ELSE 0
    IN  [i \in DOMAIN a |-> (At(i + q) \div (2 ^ r)) + (At(i + q + 1) % (2 ^ r)) * (2 ^ (8 - r))]

\* a as u8: the low byte
AsU8(a) == a[1]

\* mutant: the octets are taken from the low byte up
Octets_LowFirst(ip) ==
    <<AsU8(ip), AsU8(Shr(ip, 8)), AsU8(Shr(ip, 16)), AsU8(Shr(ip, 24))>>

\* lines 275-280
Octets(ip) ==
    <<AsU8(Shr(ip, 24)), AsU8(Shr(ip, 16)), AsU8(Shr(ip, 8)), AsU8(ip)>>

DigitChar(d) == CHOOSE ch \in Digits : DigitVal(ch) = d

\* "{}" of a u8: its decimal digits, the most significant first
RECURSIVE Decimal(_)
Decimal(n) ==
    IF n < 10 THEN <<DigitChar(n)>> ELSE Decimal(n \div 10) \o <<DigitChar(n % 10)>>

\* lines 281-284: format!("{}.{}.{}.{}", octets[0], octets[1], octets[2], octets[3])
IpStr_from(ip) ==
    LET octets == Octets(ip)
    IN  Decimal(octets[1]) \o <<".">> \o Decimal(octets[2]) \o <<".">>
        \o Decimal(octets[3]) \o <<".">> \o Decimal(octets[4])

\* byte values the model combines freely
ByteSamples == {0, 1, 9, 10, 88, 99, 100, 112, 127, 128, 255}
\* the u32 values of the model: every combination of the samples, and every
\* value 0..255 of each byte
IpInputs ==
    [1..U32Bytes -> ByteSamples]
    \cup {[i \in 1..U32Bytes |-> IF i = p THEN b ELSE 0] : p \in 1..U32Bytes, b \in 0..255}

FromU32 ==
    /\ ip_pc = "input"
    /\ ip_out' = Some(IpStr_from(ip_in))
    /\ ip_pc' = "done"
    /\ UNCHANGED <<ip_in, callVars, retryVars, batchVars, normVars, reqVars, keyVars, mainVars>>

InitIp ==
    /\ CallsIdle /\ RetryIdle /\ BatchIdle /\ NormIdle /\ ReqIdle /\ KeyIdle /\ MainIdle
    /\ ip_pc = "input" /\ ip_in \in IpInputs /\ ip_out = None
NextIp == FromU32
SpecIp == InitIp /\ [][NextIp]_vars

----------------------------------------------------------------------------
(* Properties of Spec: the permit pool *)

WaitingForPermit ==
    \/ \E c \in Calls : ex[c] = "acquire"
    \/ \E c \in Calls : \E i \in DOMAIN task[c] : task[c][i].ex = "acquire"

\* C1: however many operations and batch tasks run, the executions that are
\* past the permit acquisition and have not completed never exceed the
\* capacity of the pool
C1_PermitBound == InFlight <= Capacity

\* a batch task holds the last permit while another execution waits for one
C1_Saturated ==
    /\ InFlight = Capacity
    /\ InFlightTasks # {}
    /\ WaitingForPermit

DirectWaits(c) == pc[c] = "exec" /\ ex[c] = "acquire"
TaskWaits(c, i) == i \in DOMAIN task[c] /\ task[c][i].ex = "acquire"
TaskHolds(c, i) == i \in DOMAIN task[c] /\ task[c][i].ex \in Holding

\* C11: an execution that finds the pool saturated waits and is served: every
\* execution waiting for a permit comes to hold one, and every operation
\* that was started returns, however many batches it has
C11_WaitersServed ==
    /\ \A c \in Calls : DirectWaits(c) ~> (ex[c] \in Holding)
    /\ \A c \in Calls : \A i \in 1..MaxBuckets : TaskWaits(c, i) ~> TaskHolds(c, i)
    /\ \A c \in Calls : (pc[c] # "idle") ~> (pc[c] = "done")

\* the second batch of a playlist call waits for the permit that the
\* execution of another operation holds
C11_BatchSuspended ==
    /\ permits = 0
    /\ op[1] = "playlist" /\ TaskWaits(1, 2)
    /\ op[2] = "lrc" /\ ex[2] \in Holding

\* C10: available permits plus executions in flight always make up the
\* capacity, so every execution that completed has returned its permit
C10_PermitsConserved ==
    /\ permits \in 0..Capacity
    /\ permits + InFlight = Capacity

\* an execution ended on a JSON decode failure, a batch task ended on a
\* transport failure, and every permit is back
C10_AllReturned ==
    /\ InFlight = 0 /\ permits = Capacity
    /\ \E c \in Calls : result[c] = Some(Err(Remote(ReqErr("json"))))
    /\ \E c \in Calls : \E i \in DOMAIN task[c] :
          task[c][i].st = "fin" /\ task[c][i].res = Some(Err(ReqErr("send")))

----------------------------------------------------------------------------
(* Properties of SpecRetry *)

AllFailed == \A k \in 1..Len(r_attempts) : ~r_attempts[k].ok

\* runs of the task started so far: the finished ones and the awaited one
Started == Len(r_attempts) + (IF r_pc = "task" THEN 1 ELSE 0)

\* C7: when every attempt fails, retry runs the task exactly limit + 1 times
\* and then returns the error of the last attempt
C7_AttemptsWhenAllFail ==
    AllFailed =>
        /\ Started <= r_limit + 1
        /\ r_pc = "done" =>
              /\ Len(r_attempts) = r_limit + 1
              /\ r_result = Some(Err(r_attempts[Len(r_attempts)].e))

\* the largest limit: 256 failed runs, then the last error is returned
C7_Exhausted255 ==
    /\ r_pc = "done" /\ r_limit = U8Max /\ AllFailed
    /\ Len(r_attempts) = U8Max + 1
    /\ r_result = Some(Err(U8Max + 1))

\* C8: on_error has been called once, in order, with the error of each
\* failed attempt that was followed by another attempt, and with nothing
\* else: the calls are one fewer than the attempts
C8_OnErrorPerRetry ==
    /\ Len(r_onerr) = Started - 1
    /\ \A k \in 1..Len(r_onerr) : ~r_attempts[k].ok /\ r_onerr[k] = r_attempts[k].e

\* retry returned the third error after reporting the first two
C8_TwoReported ==
    /\ r_pc = "done" /\ r_limit = 2
    /\ r_result = Some(Err(3)) /\ r_onerr = <<1, 2>>

\* C9: retry returns Ok with the value of the first successful attempt and
\* runs no attempt after it; it returns Err only after limit + 1 failures
C9_ResultOfRetry ==
    /\ \A k \in 1..Len(r_attempts) :
          r_attempts[k].ok => /\ k = Len(r_attempts)
                              /\ r_pc = "done"
                              /\ r_result = Some(r_attempts[k])
    /\ (r_result.some /\ ~r_result.v.ok) => (AllFailed /\ Len(r_attempts) = r_limit + 1)
    /\ r_pc = "done" <=> r_result.some

\* the third attempt succeeded and its value was returned
C9_ThirdSucceeds ==
    /\ r_pc = "done" /\ r_limit > 2
    /\ r_result = Some(Ok(3)) /\ Len(r_attempts) = 3

----------------------------------------------------------------------------
(* Properties of SpecBatch *)

\* the ids playlist obtained: the unsigned-integer ids of the array, in order
ObtainedIds ==
    LET ids == SelectSeq(b_trackIds,
                 LAMBDA e : e.t = "obj" /\ "id" \in DOMAIN e.v /\ e.v.id.t = "u64")
    IN  [k \in 1..Len(ids) |-> ids[k].v.id.v]

CeilDiv(n, d) == (n + d - 1) \div d

\* C2: n ids make ceil(n / 512) buckets, every bucket but the last holds
\* exactly 512 ids and the last holds between 1 and 512
C2_Partition512 ==
    b_pc = "done" =>
        /\ Len(b_buckets) = CeilDiv(Len(ObtainedIds), ITEM_PRE_REQUEST)
        /\ \A i \in 1..Len(b_buckets) :
              IF i < Len(b_buckets)
              THEN Len(b_buckets[i]) = ITEM_PRE_REQUEST
              ELSE Len(b_buckets[i]) \in 1..ITEM_PRE_REQUEST

----------------------------------------------------------------------------
(* Properties of SpecList: one playlist call *)

\* the call got its trackIds array and built its buckets
Listed(c) == op[c] = "playlist" /\ Len(task[c]) > 0

\* bucket i was dropped: its task used up its attempts, or its request
\* could not be encoded
Dropped(c, i)  == \/ task[c][i].st = "skipped"
                  \/ task[c][i].st = "joined" /\ ~task[c][i].res.some
\* the task of bucket i returned a body, which the loop has looked at
Answered(c, i) == task[c][i].st = "joined" /\ task[c][i].res.some
BodyOf(c, i)   == task[c][i].res.v.v

HasSongsArray(json) == "songs" \in DOMAIN json.v /\ json.v.songs.t = "arr"
Malformed(c, i)     == Answered(c, i) /\ ~HasSongsArray(BodyOf(c, i))

WellFormed(rec) ==
    /\ rec.t = "obj"
    /\ {"id", "name", "ar"} \subseteq DOMAIN rec.v
    /\ rec.v.id.t = "u64" /\ rec.v.name.t = "str" /\ rec.v.ar.t = "arr"

\* name and playback link of the songs a body contributes, in the order of
\* its array
Contribution(json) ==
    LET recs == SelectSeq(json.v.songs.v, WellFormed)
    IN  [k \in 1..Len(recs) |->
            <<recs[k].v.name.v, "http://host/netease/url/" \o ToString(recs[k].v.id.v)>>]

NameAndUrl(song) == <<song.name, song.url>>

NamesAndUrls(songs) == [i \in 1..Len(songs) |-> NameAndUrl(songs[i])]

UrlsOfBucket(c, i) ==
    {"http://host/netease/url/" \o ToString(bucket_set[c][i][k].id) :
        k \in 1..Len(bucket_set[c][i])}

BucketOfSong(c, song) ==
    CHOOSE i \in 1..Len(bucket_set[c]) : song.url \in UrlsOfBucket(c, i)

\* C3: all batch tasks of a call are started before the first of them is
\* awaited
C3_AllSpawnedBeforeAwait ==
    \A c \in Calls :
        pc[c] = "await" => \A i \in DOMAIN task[c] : task[c][i].st # "lazy"

\* C4: a batch whose retry_limit + 1 attempts all failed is dropped without
\* an error: unless a body is malformed the call returns Ok, no song of a
\* dropped batch is in the list, every song of the other batches is, in the
\* order of the batches, and the list is empty when every batch is dropped
C4_FailedBatchesDropped ==
    \A c \in Calls :
        /\ \A i \in DOMAIN task[c] :
              (task[c][i].st = "fin" /\ ~task[c][i].res.v.ok)
                  => task[c][i].runs = retryArg[c] + 1
        /\ (pc[c] = "done" /\ Listed(c) /\ \A i \in DOMAIN task[c] : ~Malformed(c, i)) =>
              /\ result[c].some /\ result[c].v.ok
              /\ LET songs == result[c].v.v
                 IN  /\ \A i \in DOMAIN task[c] :
                          Dropped(c, i) =>
                             \A p \in 1..Len(songs) : songs[p].url \notin UrlsOfBucket(c, i)
                     /\ \A i \in DOMAIN task[c] :
                          Answered(c, i) =>
                             \A k \in 1..Len(Contribution(BodyOf(c, i))) :
                                \E p \in 1..Len(songs) :
                                   NameAndUrl(songs[p]) = Contribution(BodyOf(c, i))[k]
                     /\ \A p, q \in 1..Len(songs) :
                          p < q => BucketOfSong(c, songs[p]) <= BucketOfSong(c, songs[q])
                     /\ (\A i \in DOMAIN task[c] : Dropped(c, i)) => songs = <<>>

\* 1026 ids, retry 0: the one attempt of the second batch failed, the songs
\* of the first and the third batch are returned
C4_SecondOfThreeDropped ==
    /\ pc[1] = "done" /\ retryArg[1] = 0 /\ Len(task[1]) = 3
    /\ Answered(1, 1) /\ Dropped(1, 2) /\ task[1][2].st = "joined" /\ Answered(1, 3)
    /\ result[1].some /\ result[1].v.ok
    /\ NamesAndUrls(result[1].v.v) =
          <<<<"song1", "http://host/netease/url/1">>,
            <<"song2", "http://host/netease/url/2">>,
            <<"song1026", "http://host/netease/url/1026">>>>

RECURSIVE ContributionsUpTo(_, _)
ContributionsUpTo(c, i) ==
    IF i = 0 THEN <<>>
    ELSE ContributionsUpTo(c, i - 1)
            \o (IF Answered(c, i) /\ HasSongsArray(BodyOf(c, i))
                THEN Contribution(BodyOf(c, i)) ELSE <<>>)

\* C5: the list returned is, batch after batch in the order the batches
\* were created, the well-formed records of each answered batch in the order
\* of the upstream array
C5_OrderedByBatchThenUpstream ==
    \A c \in Calls :
        (pc[c] = "done" /\ Listed(c) /\ result[c].some /\ result[c].v.ok) =>
            NamesAndUrls(result[c].v.v) = ContributionsUpTo(c, Len(task[c]))

\* upstream answered the first batch in reverse order and the second one
\* with a record without a name in front
C5_UpstreamOrderKept ==
    /\ pc[1] = "done" /\ Len(task[1]) = 3
    /\ result[1].some /\ result[1].v.ok
    /\ NamesAndUrls(result[1].v.v) =
          <<<<"song2", "http://host/netease/url/2">>,
            <<"song1", "http://host/netease/url/1">>,
            <<"song515", "http://host/netease/url/515">>,
            <<"song1026", "http://host/netease/url/1026">>>>

\* C6: once a batch answered with a body that has no songs field, or whose
\* songs is not an array, the call has returned NoField, or TypeMismatch,
\* and no list
C6_MalformedBodyAborts ==
    \A c \in Calls : \A i \in DOMAIN task[c] :
        Malformed(c, i) =>
            /\ pc[c] = "done"
            /\ result[c] =
                  Some(Err(IF "songs" \in DOMAIN BodyOf(c, i).v
                           THEN TypeMismatch("<song-detal>.songs", "array")
                           ELSE NoField("<song-detal>.songs")))

\* the songs of the first batch were already in `outputs` when the second
\* batch answered with songs: null
C6_AbortAfterNormalised ==
    /\ pc[1] = "done" /\ Len(task[1]) = 2
    /\ Answered(1, 1) /\ outputs[1] # <<>>
    /\ Malformed(1, 2) /\ "songs" \in DOMAIN BodyOf(1, 2).v
    /\ result[1] = Some(Err(TypeMismatch("<song-detal>.songs", "array")))

----------------------------------------------------------------------------
(* Properties of SpecNorm: get_id_name_artist *)

Normalised == n_pc = "done"
HasIdAndName == n_in.idk = "u64" /\ n_in.namek = "str"
LacksArArray == n_in.ark \in {"absent", "null"}

\* C12 as stated: a record with an unsigned-integer id and a string name
\* whose `ar` is missing or is not an array is normalised to a track
\* reference with the empty artists string
C12_NoArGivesEmptyArtists ==
    (Normalised /\ HasIdAndName /\ LacksArArray) =>
        (n_out.some /\ n_out.v[3] = "")

\* C12 as amended: such a record is not normalised at all, the normalizer
\* returns None
C12_NoArGivesNone ==
    (Normalised /\ HasIdAndName /\ LacksArArray) => n_out = None

\* the record {id: 7, name: "seven", ar: null} was given and None came back
C12_NullArDropped ==
    /\ Normalised /\ HasIdAndName /\ n_in.ark = "null"
    /\ n_out = None

\* the names the claim counts: the non-empty strings
NamedKinds == {"A", "C"}
IsNamed(kind) == kind \in NamedKinds

RECURSIVE JoinSlash(_)
JoinSlash(names) ==
    IF names = <<>> THEN ""
    ELSE IF Len(names) = 1 THEN names[1]
    ELSE names[1] \o "/" \o JoinSlash(Tail(names))

\* C14: the artists string of a normalised record is the non-empty names of
\* its `ar` array, in upstream order, with one "/" between two of them
C14_ArtistsJoined ==
    (Normalised /\ n_out.some) =>
        n_out.v[3] = JoinSlash(SelectSeq(n_in.ar, IsNamed))

----------------------------------------------------------------------------
(* Properties of SpecOps: the operations one by one *)

Returned(c, o) == pc[c] = "done" /\ op[c] = o /\ result[c].some

HasIdAndNameRec(rec) ==
    /\ rec.t = "obj"
    /\ {"id", "name"} \subseteq DOMAIN rec.v
    /\ rec.v.id.t = "u64" /\ rec.v.name.t = "str"

\* name and playback link of the records of `arr` that have an id and a
\* name and, if `strict`, an `ar` array as well, in the order of `arr`
Expected(arr, strict) ==
    LET recs == SelectSeq(arr, LAMBDA rec : IF strict THEN WellFormed(rec)
                                                       ELSE HasIdAndNameRec(rec))
    IN  [k \in 1..Len(recs) |->
            <<recs[k].v.name.v, "http://host/netease/url/" \o ToString(recs[k].v.id.v)>>]

RECURSIVE ExpectedUpTo(_, _, _)
ExpectedUpTo(c, i, strict) ==
    IF i = 0 THEN <<>>
    ELSE ExpectedUpTo(c, i - 1, strict)
            \o (IF Answered(c, i) /\ HasSongsArray(BodyOf(c, i))
                THEN Expected(BodyOf(c, i).v.songs.v, strict) ELSE <<>>)

\* the search response has a songs array
SearchHasSongs(c) ==
    /\ body[c].some
    /\ "result" \in DOMAIN body[c].v.v
    /\ body[c].v.v.result.t = "obj"
    /\ "songs" \in DOMAIN body[c].v.v.result.v
    /\ body[c].v.v.result.v.songs.t = "arr"
SearchSongs(c) == body[c].v.v.result.v.songs.v

\* every batch of the playlist call that was answered has a songs array
AllBodiesHaveSongs(c) ==
    \A i \in DOMAIN task[c] : Answered(c, i) => HasSongsArray(BodyOf(c, i))

SkipsOnly(c, strict) ==
    /\ (Returned(c, "search") /\ SearchHasSongs(c)) =>
            /\ result[c].v.ok
            /\ NamesAndUrls(result[c].v.v) = Expected(SearchSongs(c), strict)
    /\ (Returned(c, "playlist") /\ Listed(c) /\ AllBodiesHaveSongs(c)) =>
            /\ result[c].v.ok
            /\ NamesAndUrls(result[c].v.v) = ExpectedUpTo(c, Len(task[c]), strict)

\* C13 as stated: playlist and search skip the records of a songs array
\* that lack an unsigned-integer id or a string name and return one song for
\* each of the others, in upstream order
C13_SkipsRecordsWithoutIdOrName == \A c \in Calls : SkipsOnly(c, FALSE)

\* C13 as amended: they skip the records that lack an unsigned-integer id,
\* a string name or an `ar` array and return one song for each of the
\* others, in upstream order; no such record fails the operation
C13_SkipsRecordsNotNormalised == \A c \in Calls : SkipsOnly(c, TRUE)

\* search was answered [a record without name, record 7] and returned the
\* one song of record 7
C13_SecondOfTwoKept ==
    /\ Returned(1, "search") /\ SearchHasSongs(1)
    /\ Len(SearchSongs(1)) = 2
    /\ ~HasIdAndNameRec(SearchSongs(1)[1]) /\ WellFormed(SearchSongs(1)[2])
    /\ result[1].v.ok
    /\ NamesAndUrls(result[1].v.v) = <<<<"seven", "http://host/netease/url/7">>>>

\* --- url ---

\* the response of url has a `data` array
HasData(c) ==
    /\ body[c].some
    /\ "data" \in DOMAIN body[c].v.v
    /\ body[c].v.v.data.t = "arr"
Data(c) == body[c].v.v.data.v
HasEntry(c) == HasData(c) /\ Data(c) # <<>>
Entry(c) == Data(c)[1].v

CodeIsU64(c) == "code" \in DOMAIN Entry(c) /\ Entry(c).code.t = "u64"
CodeIs200(c) == CodeIsU64(c) /\ Entry(c).code.v = 200
HasStrUrl(c) == "url" \in DOMAIN Entry(c) /\ Entry(c).url.t = "str"
HasStrUfUrl(c) ==
    /\ "uf" \in DOMAIN Entry(c) /\ Entry(c).uf.t = "obj"
    /\ "url" \in DOMAIN Entry(c).uf.v /\ Entry(c).uf.v.url.t = "str"

\* the url with its scheme made secure
ForceScheme(url) ==
    IF url # <<>> /\ url[1] = "http://" THEN <<"https://">> \o Tail(url) ELSE url

\* "http://" occurs in the url as its scheme only
OneScheme(url) == \A i \in 2..Len(url) : url[i] # "http://"

\* `out` is `url` with the secure scheme: the scheme is secure and what
\* follows the scheme is left as it was (a further "http://" inside the url,
\* which str::replace rewrites as well, aside)
Secured(out, url) ==
    /\ Len(out) = Len(url)
    /\ out[1] = "https://"
    /\ \A i \in 2..Len(url) : url[i] # "http://" => out[i] = url[i]
    /\ OneScheme(url) => out = ForceScheme(url)

IsNoneError(r) == ~r.ok /\ r.e = ErrorNone

IsFieldOrTypeError(r) == ~r.ok /\ r.e.kind \in {"NoField", "TypeMismatch"}

\* C16: with code 200, when data[0] has no string `url` (absent or null) but
\* has a string uf.url, url returns Ok with uf.url made secure; it fails
\* with a field or type error only when neither is there
C16_FallsBackToUf ==
    \A c \in Calls : (Returned(c, "url") /\ HasEntry(c) /\ CodeIs200(c)) =>
        /\ (~HasStrUrl(c) /\ HasStrUfUrl(c)) =>
              /\ result[c].v.ok
              /\ Secured(result[c].v.v, Entry(c).uf.v.url.v)
        /\ IsFieldOrTypeError(result[c].v) => (~HasStrUrl(c) /\ ~HasStrUfUrl(c))

\* --- song ---

\* the response of song lacks what the operation needs: no `songs`, `songs`
\* not an array, `songs` empty, or a first record that does not normalise
SongUnusable(json) ==
    \/ "songs" \notin DOMAIN json.v
    \/ json.v.songs.t # "arr"
    \/ json.v.songs.v = <<>>
    \/ ~WellFormed(json.v.songs.v[1])

\* C17: whenever the decoded response of song is unusable, the call
\* completes with one error value; it never ends without returning
C17_SongFailsWithError ==
    \A c \in Calls :
        (op[c] = "song" /\ body[c].some /\ SongUnusable(body[c].v)) =>
            /\ pc[c] = "done"
            /\ result[c].some /\ ~result[c].v.ok

\* --- pic ---

\* ids that are no unsigned integer: empty, a letter, a sign, a trailing
\* letter
BadIds == {<<>>, <<"x">>, <<"-", "7">>, <<"7", "x">>}

Called(c, o) == pc[c] = "idle" /\ pc'[c] # "idle" /\ op'[c] = o

\* C18: pic called with an id that is no unsigned integer returns
\* TypeMismatch at once: no permit is taken, no execution is started and
\* nothing else changes
C18_BadIdNoExecution ==
    [][\A c \in Calls :
          (Called(c, "pic") /\ idArg'[c] \in BadIds) =>
              /\ pc'[c] = "done"
              /\ result'[c] = Some(Err(TypeMismatch("<id>", "u64")))
              /\ permits' = permits
              /\ ex' = ex /\ execs' = execs /\ body' = body
              /\ task' = task /\ bucket_set' = bucket_set /\ outputs' = outputs]_vars

\* pic("7x") has returned TypeMismatch with every permit still in the pool
C18_BadIdReturned ==
    /\ Returned(1, "pic") /\ idArg[1] = <<"7", "x">>
    /\ result[1] = Some(Err(TypeMismatch("<id>", "u64")))
    /\ execs[1] = 0 /\ permits = Capacity /\ ex[1] = "none"

\* --- lrc ---

HasLyric(json) ==
    /\ "lrc" \in DOMAIN json.v /\ json.v.lrc.t = "obj"
    /\ "lyric" \in DOMAIN json.v.lrc.v /\ json.v.lrc.v.lyric.t = "str"

\* C19: lrc returns Ok for every decoded response, with the string at
\* lrc.lyric if there is one and with the placeholder text otherwise; it
\* fails only when the envelope cannot be encoded or the execution fails
C19_LrcAlwaysOk ==
    \A c \in Calls : Returned(c, "lrc") =>
        /\ body[c].some =>
              /\ result[c].v.ok
              /\ result[c].v.v = IF HasLyric(body[c].v) THEN body[c].v.v.lrc.v.lyric.v
                                 ELSE "[00:00.00]no lyric"
        /\ ~result[c].v.ok =>
              /\ ~body[c].some
              /\ result[c].v.e.kind \in {"Encode", "Remote"}

\* upstream answered {"lrc": {"lyric": null}} and the placeholder came back
C19_PlaceholderForNull ==
    /\ Returned(1, "lrc") /\ body[1].some
    /\ "lrc" \in DOMAIN body[1].v.v /\ ~HasLyric(body[1].v)
    /\ result[1] = Some(Ok("[00:00.00]no lyric"))

\* --- executions per call ---

ExecFailed(c) ==
    /\ pc[c] = "done" /\ result[c].some /\ ~result[c].v.ok
    /\ result[c].v.e.kind \in {"Remote", "Server"}

\* C20: an operation starts at most one execution of its own: playlist
\* exactly one for the track-id list, whatever `retry` is, and its failure
\* is returned without a second attempt; no operation but playlist has
\* batch tasks, so song and search fetch nothing for the tracks they return
C20_OneExecutionPerCall ==
    \A c \in Calls :
        /\ execs[c] <= 1
        /\ (op[c] = "playlist" /\ pc[c] \in {"exec", "next", "await"}) => execs[c] = 1
        /\ ExecFailed(c) => (execs[c] = 1 /\ task[c] = <<>>)
        /\ op[c] # "playlist" => task[c] = <<>>
        /\ (pc[c] = "done" /\ op[c] \in {"url", "lrc", "search"}
                /\ result[c] # Some(Err(EncodeErr))) => execs[c] = 1

\* a playlist call with retry 1 ran its batch request a second time, having
\* asked for the track-id list once
C20_OnlyBatchRetried ==
    /\ op[1] = "playlist" /\ retryArg[1] = 1 /\ execs[1] = 1
    /\ \E i \in DOMAIN task[1] : task[1][i].runs = 2

\* --- artist and the default bodies of the trait ---

\* call c takes a step of an operation the provider does not override
Defaulted(c) == op'[c] \notin Overrides

\* C21: a call of artist, like a call of any operation the provider does not
\* override, returns Error::Unimplemented at once: the step that starts it
\* ends it with Err(Unimplemented), takes no permit and starts no remote
\* execution, whatever the id.
C21_ArtistUnimplemented ==
    [][\A c \in Calls :
          Called(c, op'[c]) /\ Defaulted(c)
            => /\ pc'[c] = "done"
               /\ result'[c] = Some(Err(Unimplemented))
               /\ permits' = permits
               /\ ex'[c] = "none" /\ execs'[c] = 0
               /\ task'[c] = <<>>]_vars

\* a call of artist with a non-numeric id has returned while every permit
\* is held by the request of another call
C21_ArtistReturned ==
    \E c \in Calls : /\ pc[c] = "done" /\ op[c] = "artist" /\ idArg[c] = <<"x">>
                     /\ result[c] = Some(Err(Unimplemented))
                     /\ execs[c] = 0 /\ permits = 0

----------------------------------------------------------------------------
(* Properties of SpecSearchReq: the offset of the search payload *)

\* max(page, 1)
MaxOne(page) == IF IsZero(page) THEN Usize(1) ELSE page
\* (max(page, 1) - 1) * limit as a natural number, 16 bytes
Product == WideMul(WDec(MaxOne(sr_options.page)), sr_options.limit)
\* a usize as a 16-byte number
Widen(a) == a \o Usize(0)
\* a usize below 2^15, and the value of a usize below 2^31
Small(a) == a[2] < 128 /\ \A i \in 3..Len(a) : a[i] = 0
ToInt(a) == a[1] + 256 * a[2] + 65536 * a[3] + 16777216 * a[4]
MaxInt(m, n) == IF m >= n THEN m ELSE n

\* the request was built and its offset is (max(page, 1) - 1) * limit
OffsetIs(req) ==
    /\ ~IsPanic(req)
    /\ Widen(req.offset) = Product
    /\ Small(sr_options.page) /\ Small(sr_options.limit)
         => ToInt(req.offset)
              = (MaxInt(ToInt(sr_options.page), 1) - 1) * ToInt(sr_options.limit)
    /\ sr_options.page \in {Usize(0), Usize(1)} => IsZero(req.offset)
    /\ sr_options.page = Usize(3)
         => Widen(req.offset) = WideMul(Usize(2), sr_options.limit)

\* C22 as stated: for every page and limit the offset of the payload is
\* (max(page, 1) - 1) * limit.
C22_OffsetOfPage == sr_req.some => OffsetIs(sr_req.v)

\* C22: whenever (max(page, 1) - 1) * limit fits a usize, the offset of the
\* payload equals it: page 0 and page 1 give offset 0, page 3 gives
\* 2 * limit.  When it does not fit, SearchReq::new panics or the offset is
\* the product modulo 2^64.
C22_OffsetWhenProductFits ==
    sr_req.some =>
        IF Overflows(Product)
        THEN IsPanic(sr_req.v) \/ sr_req.v.offset = Low(Product)
        ELSE OffsetIs(sr_req.v)

\* page 3 of 30 results each starts at offset 60
C22_PageThree ==
    /\ sr_req.some /\ ~IsPanic(sr_req.v)
    /\ sr_options.page = Usize(3) /\ sr_options.limit = Usize(30)
    /\ sr_req.v.offset = Usize(60)

----------------------------------------------------------------------------
(* Properties of SpecFront *)

\* the batch tasks of call c that were spawned and not yet joined
Spawned(c) == {i \in DOMAIN task[c] : task[c][i].st \in {"run", "fin"}}

\* C23: the process-wide retry budget is 0 in every reachable state, so a
\* playlist request of the front-end is given retry = 0 and each of its
\* batch requests is attempted exactly once: from its spawn to its join a
\* batch task has run exec once, and it never counts a retry.
C23_RetryBudgetZero ==
    /\ RETRY = 0
    /\ \A c \in Calls :
          op[c] = "playlist" =>
             /\ retryArg[c] = 0
             /\ \A i \in DOMAIN task[c] :
                   /\ task[c][i].counter = 0
                   /\ task[c][i].runs <= 1
                   /\ i \in Spawned(c) => task[c][i].runs = 1

\* the second batch request failed at its only attempt and its task ended
C23_FailedBatchNotRetried ==
    /\ op[1] = "playlist" /\ Len(task[1]) >= 2
    /\ task[1][2].st = "fin" /\ task[1][2].res.some /\ ~task[1][2].res.v.ok
    /\ task[1][2].runs = 1

----------------------------------------------------------------------------
(* Properties of SpecKey: the symmetric key of the envelope *)

\* the bytes of the 62 alphanumeric characters: 0-9, A-Z, a-z
Alnum == (48..57) \cup (65..90) \cup (97..122)

\* try_from_str ran with a key from the random source
KeyMade == k_pc = "done" /\ k_out.some /\ k_rng.ok

\* C24: the symmetric key always has 16 bytes; whatever value 0..255 a raw
\* random byte has, the key byte is the alphabet character at index
\* (byte mod 62), one of the 62 alphanumeric characters; so the reversed key
\* is always valid text (EncodeRevStr never happens) and the block given to
\* RSA has exactly 128 bytes: 112 zero bytes, then the 16 key bytes reversed.
C24_KeyAlphanumeric ==
    KeyMade =>
        /\ k_skey.some /\ Len(k_skey.v) = 16
        /\ \A i \in 1..16 :
              /\ k_skey.v[i] = base62[(k_rng.v[i] % 62) + 1]
              /\ k_skey.v[i] \in Alnum
        /\ k_out.v # Err(ParseErr("EncodeRevStr"))
        /\ k_block.some /\ Len(k_block.v) = 128
        /\ \A i \in 1..112 : k_block.v[i] = 0
        /\ \A i \in 1..16 : k_block.v[112 + i] = k_skey.v[17 - i]

\* the raw byte 255 at the head of the key became "h" (255 mod 62 = 7) and
\* ends the block
C24_Byte255Mapped ==
    /\ KeyMade /\ k_rng.v[1] = 255
    /\ k_skey.some /\ k_skey.v[1] = 104
    /\ k_block.some /\ k_block.v[128] = 104
    /\ k_out.v.ok

----------------------------------------------------------------------------
(* Properties of SpecIp: the dotted quad of a u32 *)

\* the pieces of a text between its dots
RECURSIVE SplitDots(_)
SplitDots(s) ==
    IF \A i \in DOMAIN s : s[i] # "."
    THEN <<s>>
    ELSE LET d == CHOOSE i \in DOMAIN s : s[i] = "." /\ \A j \in 1..(i - 1) : s[j] # "."
         IN  <<SubSeq(s, 1, d - 1)>> \o SplitDots(SubSeq(s, d + 1, Len(s)))

\* part is the decimal number n, 0..255, written without leading zeros
IsDecimalOf(part, n) ==
    /\ Len(part) \in 1..3
    /\ \A i \in DOMAIN part : part[i] \in Digits
    /\ Len(part) > 1 => part[1] # "0"
    /\ DecimalVal(part) = n
    /\ n \in 0..255

\* the k-th byte of ip in big-endian order
BigEndianByte(ip, k) == ip[U32Bytes + 1 - k]

\* the value of a u32 below 2^31, and its k-th byte in big-endian order by
\* division
IpValue(ip) == ip[1] + 256 * ip[2] + 65536 * ip[3] + 16777216 * ip[4]
QuotByte(n, k) ==
    IF k = 1 THEN n \div 16777216
    ELSE IF k = 2 THEN (n \div 65536) % 256
    ELSE IF k = 3 THEN (n \div 256) % 256
    ELSE n % 256

\* C25: IpStr::from renders a u32 as the dotted quad of its four bytes in
\* big-endian order, each a decimal number 0..255; 1884815360 gives
\* "112.88.0.0".
C25_DottedQuad ==
    ip_pc = "done" /\ ip_out.some =>
        LET parts == SplitDots(ip_out.v)
        IN  /\ Len(parts) = 4
            /\ \A k \in 1..4 :
                  /\ IsDecimalOf(parts[k], BigEndianByte(ip_in, k))
                  /\ ip_in[4] < 128 => IsDecimalOf(parts[k], QuotByte(IpValue(ip_in), k))
            /\ ip_in = U32(1884815360)
                 => ip_out.v = <<"1", "1", "2", ".", "8", "8", ".", "0", ".", "0">>

\* the example of the test: 1884815360 was rendered as 112.88.0.0
C25_TestVector ==
    /\ ip_pc = "done" /\ ip_in = U32(1884815360)
    /\ ip_out = Some(<<"1", "1", "2", ".", "8", "8", ".", "0", ".", "0">>)

----------------------------------------------------------------------------
(* Properties of SpecList: the batch requests of a playlist *)

\* the batch request of bucket i of call c is being sent or answered
Requesting(c, i) == i \in DOMAIN task[c] /\ task[c][i].ex \in Holding

\* C26: every batch detail request playlist sends carries at least one
\* track id: no request is issued for an empty bucket, neither for an empty
\* playlist nor as a trailing batch.
C26_NoEmptyBatchRequest ==
    \A c \in Calls : \A i \in DOMAIN task[c] :
        Requesting(c, i) => Len(bucket_set[c][i]) > 0

----------------------------------------------------------------------------
(* Properties of SpecBatch: what the buckets hold *)

\* the buckets one after the other, in the order they were created
RECURSIVE Concat(_)
Concat(buckets) ==
    IF buckets = <<>> THEN <<>> ELSE Head(buckets) \o Concat(Tail(buckets))

\* the ids of a sequence of request items
IdsOf(items) == [k \in 1..Len(items) |-> items[k].id]

\* C27: the buckets, concatenated in creation order, are the
\* unsigned-integer ids of the trackIds array in upstream order: no id is
\* lost, duplicated or moved, and only the entries without an
\* unsigned-integer id are left out.
C27_BucketsKeepIds ==
    b_pc = "done" => IdsOf(Concat(b_buckets)) = ObtainedIds

\* more than two buckets' worth of entries, one of them without a usable
\* id, were split into three buckets
C27_ThreeBucketsOneSkipped ==
    /\ b_pc = "done"
    /\ Len(b_trackIds) > 2 * ITEM_PRE_REQUEST
    /\ Len(ObtainedIds) = Len(b_trackIds) - 1
    /\ Len(b_buckets) = 3
    /\ IdsOf(Concat(b_buckets)) = ObtainedIds

----------------------------------------------------------------------------
(* Properties of SpecList: what a playlist call leaves behind *)

\* the playlist call c has its result (the handler has yet to render it)
PlaylistReturned(c) == op[c] = "playlist" /\ pc[c] = "done" /\ result[c].some

\* the batch task i of call c goes on: it waits for a permit, is sending or
\* being answered, or has its output unread
Pending(c, i) == task[c][i].st \in {"run", "fin"} \/ task[c][i].ex # "none"

\* a step starts the batch request i of call c
StartsBatch(c, i) ==
    /\ i \in DOMAIN task'[c] /\ task'[c][i].st = "run"
    /\ ~(i \in DOMAIN task[c] /\ task[c][i].st = "run")

\* C28: when a playlist call returns, with Ok or with an error (the abort
\* on a malformed body of an earlier batch included), none of its batch
\* requests is in flight, holds a permit or waits for one, and none is
\* started afterwards: a batch request starts only while the call goes
\* through its batches.
C28_NothingLeftBehind ==
    /\ [](\A c \in Calls :
            PlaylistReturned(c) =>
               /\ ex[c] = "none"
               /\ \A i \in DOMAIN task[c] : ~Pending(c, i))
    /\ [][\A c \in Calls : \A i \in 1..MaxBuckets :
              StartsBatch(c, i) => pc[c] = "next" /\ pc'[c] = "await"]_vars

\* the call was aborted by the malformed body of its first batch while two
\* more batches had not been asked for
C28_AbortedBeforeLaterBatches ==
    /\ PlaylistReturned(1) /\ ~result[1].v.ok
    /\ result[1].v.e.kind \in {"NoField", "TypeMismatch"}
    /\ Len(task[1]) >= 3
    /\ task[1][1].st = "joined" /\ task[1][2].st = "lazy" /\ task[1][3].st = "lazy"
    /\ permits = Capacity
====
